---- MODULE Spec2Model ----
(***************************************************************************)
(* Content intelligence engine: the research & intelligence pipeline.      *)
(*                                                                         *)
(* run_pipeline (core/pipeline.py) is modelled stage by stage, together    *)
(* with research_niche and its on-disk cache (core/research_engine.py),    *)
(* the backend client (core/ollama_client.py), the analysis stages         *)
(* (core/intelligence_engine.py), generate_strategy                        *)
(* (core/strategy_engine.py) and the HTTP caller analyze (api/app.py).     *)
(*                                                                         *)
(* Texts are TLA+ strings; Python's str methods are operators on them.     *)
(* The clock counts hours; one pipeline run is shorter than one tick.      *)
(***************************************************************************)
EXTENDS Integers, Sequences, FiniteSets, TLC

VARIABLES
    pc,             \* position of the running call (see the actions)
    args,           \* (niche, platform, audience, goal) of the call
    log,            \* the list `log` of run_pipeline / research_niche
    result,         \* the dict `result` of run_pipeline (NoResult before it is built)
    exc,            \* the exception in flight / raised to the caller
    response,       \* what analyze hands to its client (NoResponse before)
    research_data,  \* the list research_niche returned
    queries,        \* build_queries' output inside research_niche
    all_results,    \* accumulated ResultStubs inside research_niche
    raw,            \* generate_strategy's local `raw` (pass-1 text)
    refined,        \* generate_strategy's pass 2: the text returned or the exception raised
    strategy,       \* the dict generate_strategy returned (empty before)
    cache,          \* the cache directory: path -> [mtime, data]
    now,            \* wall clock, hours
    start_time,     \* run_pipeline's start_time
    searchReqs,     \* search-provider requests issued by the call, in order
    pageFetches,    \* page fetches issued by the call
    genReqs,        \* generation requests issued by the call
    stages,         \* pipeline stages executed by the call, in order
    calls,          \* number of calls started
    lastSaved,      \* history: path -> the list the last completed _save_cache wrote
    disk,           \* the cache file of the key, byte by byte (concurrent runs)
    runs            \* the concurrent runs of research_niche on the key: where each is
                    \* (pc), the list it retrieves (data), the bytes it has written
                    \* (done), what its _load_cache returned (got) and met (saw)

vars == <<pc, args, log, result, exc, response, research_data, queries,
          all_results, raw, refined, strategy, cache, now, start_time, searchReqs,
          pageFetches, genReqs, stages, calls, lastSaved, disk, runs>>

-----------------------------------------------------------------------------
(* Python str and list primitives                                          *)

Char(s, i) == SubSeq(s, i, i)

IsSpace(c) == c \in {" ", "\n", "\t"}

UpperSet == {Char("ABCDEFGHIJKLMNOPQRSTUVWXYZ", i) : i \in 1..Len("ABCDEFGHIJKLMNOPQRSTUVWXYZ")}

LowerSet == {Char("abcdefghijklmnopqrstuvwxyz", i) : i \in 1..Len("abcdefghijklmnopqrstuvwxyz")}

DigitSet == {Char("0123456789", i) : i \in 1..Len("0123456789")}

LowerOf == [c \in UpperSet |->
               Char("abcdefghijklmnopqrstuvwxyz", CHOOSE i \in 1..Len("ABCDEFGHIJKLMNOPQRSTUVWXYZ") : Char("ABCDEFGHIJKLMNOPQRSTUVWXYZ", i) = c)]

IsDigit(c) == c \in DigitSet

\* the first position at or after i (the last at or before n) whose character
\* satisfies P; Len(s) + 1 (0) when there is none
RECURSIVE FirstWhere(_, _, _)
FirstWhere(P(_), s, i) ==
    IF i > Len(s) THEN Len(s) + 1
    ELSE IF P(Char(s, i)) THEN i ELSE FirstWhere(P, s, i + 1)

\* the last such position in lo..hi, looked for in the upper half first
RECURSIVE LastBetween(_, _, _, _)
LastBetween(P(_), s, lo, hi) ==
    IF lo > hi THEN 0
    ELSE IF lo = hi THEN (IF P(Char(s, lo)) THEN lo ELSE 0)
    ELSE LET Or(upper) == IF upper # 0 THEN upper
                          ELSE LastBetween(P, s, lo, (lo + hi) \div 2)
         IN  Or(LastBetween(P, s, ((lo + hi) \div 2) + 1, hi))

LastWhere(P(_), s, n) == LastBetween(P, s, 1, n)

SetMin(S) == CHOOSE m \in S : \A k \in S : m <= k

Min2(a, b) == IF a <= b THEN a ELSE b

\* str.lower() on one character
LowerChar(c) == IF c \in UpperSet THEN LowerOf[c] ELSE c

\* str.lower()
RECURSIVE Lower(_)
Lower(s) ==
    IF Len(s) = 0 THEN ""
    ELSE IF Len(s) = 1 THEN LowerChar(s)
    ELSE Lower(SubSeq(s, 1, Len(s) \div 2)) \o Lower(SubSeq(s, (Len(s) \div 2) + 1, Len(s)))

\* str.strip()
NotSpace(c) == ~IsSpace(c)

Strip(s) ==
    LET a == FirstWhere(NotSpace, s, 1)
    IN  IF a > Len(s) THEN "" ELSE SubSeq(s, a, LastWhere(NotSpace, s, Len(s)))

\* the maximal runs of characters of s that satisfy In, in order: the runs
\* of the two halves, the run across the middle joined
JoinRuns(l, r, joined) ==
    IF joined THEN SubSeq(l, 1, Len(l) - 1) \o <<l[Len(l)] \o r[1]>> \o Tail(r) ELSE l \o r

RECURSIVE RunsIn(_, _)
RunsIn(In(_), s) ==
    IF Len(s) = 0 THEN <<>>
    ELSE IF Len(s) = 1 THEN (IF In(s) THEN <<s>> ELSE <<>>)
    ELSE JoinRuns(RunsIn(In, SubSeq(s, 1, Len(s) \div 2)),
                  RunsIn(In, SubSeq(s, (Len(s) \div 2) + 1, Len(s))),
                  In(Char(s, Len(s) \div 2)) /\ In(Char(s, (Len(s) \div 2) + 1)))

Runs(s, In(_)) == RunsIn(In, s)

\* s.split()
Split(s) == Runs(s, NotSpace)

\* str.rstrip("/")
RStripSlash(s) == SubSeq(s, 1, LastWhere(LAMBDA c : c # "/", s, Len(s)))

\* `w in s` on strings
Contains(s, w) ==
    \E i \in 1..(Len(s) - Len(w) + 1) : SubSeq(s, i, i + Len(w) - 1) = w

\* str.startswith
StartsWith(s, w) == Len(s) >= Len(w) /\ SubSeq(s, 1, Len(w)) = w

\* "{}".format(n) for a natural number
RECURSIVE NumStr(_)
NumStr(n) ==
    IF n < 10 THEN Char("0123456789", n + 1)
    ELSE NumStr(n \div 10) \o Char("0123456789", (n % 10) + 1)

\* n copies of s, concatenated
RECURSIVE Rep(_, _)
Rep(s, n) ==
    IF n = 0 THEN ""
    ELSE IF n = 1 THEN s
    ELSE Rep(s, n \div 2) \o Rep(s, n - (n \div 2))

\* the elements of a sequence
Range(q) == {q[i] : i \in DOMAIN q}

\* q[-n:], the last n elements
TakeLast(q, n) == SubSeq(q, Len(q) - Min2(n, Len(q)) + 1, Len(q))

\* seq[:n]
Take(q, n) == SubSeq(q, 1, Min2(n, Len(q)))

\* dict.get(k, default)
Get(d, k, default) == IF k \in DOMAIN d THEN d[k] ELSE default

-----------------------------------------------------------------------------
(* Program constants                                                       *)

MAX_RETRIES == 2

CONTENT_EXTRACT_LIMIT == 5

MAX_CONTENT_LENGTH == 1200

MIN_CONTENT_LENGTH == 300

CACHE_MAX_AGE_HOURS == 24

MAX_RESULTS == 12

MIN_COMBINED_RESULTS == 5

MIN_SUMMARY_INPUT == 100

MIN_DRAFT_LENGTH == 100

POWER_WORDS ==
    {"ultimate", "secret", "proven", "explosive", "mistake", "breakdown",
     "step-by-step", "hack", "strategy", "deadly", "hidden", "crucial",
     "essential", "surprising", "shocking", "powerful", "critical",
     "guaranteed", "instant", "exclusive", "revolutionary", "incredible"}

\* NICHE_KEYWORD_MAP, in dict (insertion) order
NICHE_KEYWORD_MAP ==
    << [cat |-> "founder", kws |-> <<"founder", "startup", "indie", "entrepreneur", "bootstrapped", "solopreneur">>],
       [cat |-> "startup", kws |-> <<"startup", "founder", "venture", "mvp", "fundraising", "entrepreneur">>],
       [cat |-> "indie", kws |-> <<"indie", "hacker", "bootstrapped", "solopreneur", "maker", "builder">>],
       [cat |-> "entrepreneur", kws |-> <<"entrepreneur", "founder", "business", "startup", "venture">>],
       [cat |-> "creator", kws |-> <<"creator", "content", "audience", "brand", "influencer">>],
       [cat |-> "marketer", kws |-> <<"marketer", "marketing", "growth", "funnel", "conversion">>],
       [cat |-> "developer", kws |-> <<"developer", "dev", "code", "programming", "software">>],
       [cat |-> "freelancer", kws |-> <<"freelancer", "freelance", "client", "contract", "agency">>] >>

\* NICHE_QUERY_ENRICHMENT
NICHE_QUERY_ENRICHMENT ==
    [founder |-> <<"founder workflow", "startup execution", "indie hacker", "startup growth">>,
     startup |-> <<"startup operations", "early stage growth", "startup toolkit">>,
     indie |-> <<"indie hacker tools", "bootstrapped growth", "solo builder">>,
     entrepreneur |-> <<"entrepreneur systems", "business automation">>,
     creator |-> <<"creator tools", "content workflow", "creator economy">>,
     marketer |-> <<"marketing automation", "growth strategy">>,
     developer |-> <<"dev tools", "developer workflow">>,
     freelancer |-> <<"freelance workflow", "client management">>]

-----------------------------------------------------------------------------
(* research_engine.py: pure parts                                          *)

\* _cache_path: the key string that is hashed into the file name.  The md5
\* prefix is taken as injective on the keys of the model.
CachePath(niche, platform) == Lower(Strip(niche)) \o "__" \o Lower(Strip(platform))

\* _detect_niche_category
DetectNicheCategory(niche) ==
    LET niche_l == Lower(niche)
        hit == {i \in DOMAIN NICHE_KEYWORD_MAP :
                   \E k \in DOMAIN NICHE_KEYWORD_MAP[i].kws :
                       Contains(niche_l, NICHE_KEYWORD_MAP[i].kws[k])}
    IN  IF hit = {} THEN "" ELSE NICHE_KEYWORD_MAP[SetMin(hit)].cat

\* ' '.join(words)
RECURSIVE JoinSpace(_)
JoinSpace(ws) ==
    IF Len(ws) = 0 THEN ""
    ELSE IF Len(ws) = 1 THEN ws[1]
    ELSE ws[1] \o " " \o JoinSpace(Tail(ws))

\* build_queries: the possible outputs (random.choice picks the enrichment)
BuildQueries(niche, platform) ==
    LET cat == DetectNicheCategory(niche)
        primary == niche \o " " \o platform \o " content strategy 2024"
    IN  IF cat # "" /\ cat \in DOMAIN NICHE_QUERY_ENRICHMENT
        THEN {<<primary, niche \o " " \o e \o " " \o platform>> :
                  e \in Range(NICHE_QUERY_ENRICHMENT[cat])}
        ELSE {<<primary, JoinSpace(Take(Split(niche), 3)) \o " " \o platform \o " tips">>}

\* _parse_ddg on the result links of a page: [title, href, snippet]
DdgUrl(href) ==
    IF Contains(href, "uddg=")
    THEN LET a == SetMin({i \in 1..(Len(href) - 4) : SubSeq(href, i, i + 4) = "uddg="}) + 5
             stop == {i \in a..Len(href) : Char(href, i) = "&"}
             b == IF stop = {} THEN Len(href) ELSE SetMin(stop) - 1
         IN  SubSeq(href, a, b)
    ELSE IF StartsWith(href, "http") THEN href ELSE ""

DdgKeep(l) ==
    /\ l.title # ""
    /\ DdgUrl(l.href) # ""
    /\ StartsWith(DdgUrl(l.href), "http")
    /\ ~Contains(DdgUrl(l.href), "duckduckgo.com")

ParseDdg(links) ==
    LET kept == SelectSeq(links, DdgKeep)
    IN  [i \in 1..Len(kept) |->
            [title |-> kept[i].title, snippet |-> kept[i].snippet, url |-> DdgUrl(kept[i].href)]]

\* _parse_bing on the b_algo items of a page: [title, href, snippet]
BingKeep(l) ==
    /\ l.href # ""
    /\ StartsWith(l.href, "http")
    /\ ~Contains(l.href, "bing.com")

ParseBing(links) ==
    LET kept == SelectSeq(links, BingKeep)
    IN  [i \in 1..Len(kept) |->
            [title |-> kept[i].title, snippet |-> kept[i].snippet, url |-> kept[i].href]]

\* _dedup
NormUrl(r) == Lower(RStripSlash(r.url))

\* a de-duplication that compares the urls as they are written
DedupExactUrl(results) ==
    LET First(i) == \A j \in 1..(i - 1) : results[j].url # results[i].url
        kept == SelectSeq([i \in 1..Len(results) |-> [r |-> results[i], first |-> First(i)]],
                          LAMBDA e : e.first)
    IN  [i \in 1..Len(kept) |-> kept[i].r]

\* a de-duplication in which the entry met last replaces the one kept so far
DedupLastWins(results) ==
    LET Last(i) == \A j \in (i + 1)..Len(results) :
                       Lower(RStripSlash(results[j].url)) # Lower(RStripSlash(results[i].url))
        kept == SelectSeq([i \in 1..Len(results) |-> [r |-> results[i], last |-> Last(i)]],
                          LAMBDA e : e.last)
    IN  [i \in 1..Len(kept) |-> kept[i].r]

RECURSIVE DedupLoop(_, _, _, _)
DedupLoop(results, i, seen, unique) ==
    IF i > Len(results) THEN unique
    ELSE IF NormUrl(results[i]) \notin seen
         THEN DedupLoop(results, i + 1, seen \cup {NormUrl(results[i])}, Append(unique, results[i]))
         ELSE DedupLoop(results, i + 1, seen, unique)

Dedup(results) == DedupLoop(results, 1, {}, <<>>)

\* compute_heuristic_score
ScoreOf(title, combined) ==
    (IF \E i \in 1..Len(combined) : IsDigit(Char(combined, i)) THEN 2 ELSE 0)
    + (IF Contains(combined, "?") THEN 1 ELSE 0)
    + (IF Len(Split(title)) < 12 THEN 1 ELSE 0)
    + Cardinality({w \in POWER_WORDS : Contains(combined, w)})

ComputeHeuristicScore(title, snippet) == ScoreOf(title, Lower(title \o " " \o snippet))

\* list.sort(key=score, reverse=True): stable, descending
RECURSIVE InsertByScore(_, _)
InsertByScore(sorted, r) ==
    IF Len(sorted) = 0 THEN <<r>>
    ELSE IF sorted[1].score >= r.score
         THEN <<sorted[1]>> \o InsertByScore(Tail(sorted), r)
         ELSE <<r>> \o sorted

RECURSIVE SortByScoreDesc(_)
SortByScoreDesc(q) ==
    IF Len(q) = 0 THEN <<>>
    ELSE InsertByScore(SortByScoreDesc(SubSeq(q, 1, Len(q) - 1)), q[Len(q)])

\* the stubs scored and blanked, left in the order of the accumulation
ScoreUnsorted(deduped) ==
    [i \in 1..Len(deduped) |->
        [title |-> deduped[i].title, snippet |-> deduped[i].snippet, url |-> deduped[i].url,
         content |-> "", score |-> ComputeHeuristicScore(deduped[i].title, deduped[i].snippet),
         summary |-> ""]]

\* research_niche, "Score": score every stub, blank content and summary, sort
ScoreAndSort(deduped) ==
    SortByScoreDesc([i \in 1..Len(deduped) |->
        [title |-> deduped[i].title, snippet |-> deduped[i].snippet, url |-> deduped[i].url,
         content |-> "", score |-> ComputeHeuristicScore(deduped[i].title, deduped[i].snippet),
         summary |-> ""]])

\* extract_page_content that returns the cleaned text whole, however long
ExtractWhole(page) ==
    IF ~page.ok \/ ~page.html THEN ""
    ELSE IF Len(page.cleaned) < MIN_CONTENT_LENGTH THEN ""
    ELSE page.cleaned

\* extract_page_content after the fetch: page = [ok, html, cleaned], where
\* cleaned is _clean_text's output for the page
ExtractPageContent(page) ==
    IF ~page.ok \/ ~page.html THEN ""
    ELSE IF Len(page.cleaned) < MIN_CONTENT_LENGTH THEN ""
    ELSE IF Len(page.cleaned) > MAX_CONTENT_LENGTH
         THEN \* last_period: trunc.rfind('.'), 1-based (0: none)
              LET Cut(trunc, last_period) ==
                      IF 2 * (last_period - 1) > MAX_CONTENT_LENGTH
                      THEN SubSeq(trunc, 1, last_period)
                      ELSE trunc
              IN  Cut(SubSeq(page.cleaned, 1, MAX_CONTENT_LENGTH),
                      LastWhere(LAMBDA c : c = ".", page.cleaned, MAX_CONTENT_LENGTH))
         ELSE page.cleaned

-----------------------------------------------------------------------------
(* ollama_client.py                                                        *)

\* One backend answer to one generation request:
\*   unreachable   requests.exceptions.ConnectionError
\*   req_error     any other RequestException
\*   http_overflow status != 200, body names context / too long / token
\*   http_error    status != 200, any other body
\*   bad_json      status 200, body is not JSON
\*   json_overflow status 200, no "response", error names context / token
\*   json_error    status 200, no "response", any other error
\*   ok            status 200 with "response" = text
Ans(kind, text) == [kind |-> kind, text |-> text]

Returned(text, n) == [kind |-> "text", text |-> text, msg |-> "", requests |-> n]

Raised(type, msg, n) == [kind |-> type, text |-> "", msg |-> msg, requests |-> n]

\* send_prompt with max_retries_on_overflow = 1: answers[i] answers the i-th
\* request; the result names the text returned or the exception raised, and
\* the number of requests issued
RECURSIVE SendLoop(_, _)
SendLoop(answers, attempts) ==
    LET a == answers[attempts + 1]
        n == attempts + 1
    IN  IF a.kind = "unreachable"
            THEN Raised("ConnectionError", "Ollama not running. Start with: ollama serve", n)
        ELSE IF a.kind = "req_error"
            THEN Raised("RuntimeError", "Ollama request failed: " \o a.text, n)
        ELSE IF a.kind = "http_overflow"
            THEN IF attempts < 1 THEN SendLoop(answers, attempts + 1)
                 ELSE Raised("RuntimeError", "Context limit exceeded after trimming.", n)
        ELSE IF a.kind = "http_error"
            THEN Raised("RuntimeError", "Ollama error 500: " \o a.text, n)
        ELSE IF a.kind = "bad_json"
            THEN Raised("RuntimeError", "Invalid JSON from Ollama.", n)
        ELSE IF a.kind = "json_overflow"
            THEN IF attempts < 1 THEN SendLoop(answers, attempts + 1)
                 ELSE Raised("RuntimeError", "Unexpected response. Error: " \o a.text, n)
        ELSE IF a.kind = "json_error"
            THEN Raised("RuntimeError", "Unexpected response. Error: " \o a.text, n)
        ELSE Returned(Strip(a.text), n)

SendPrompt(answers) == SendLoop(answers, 0)

Failed(o) == o.kind \in {"ConnectionError", "RuntimeError"}

\* the requests a send_prompt call adds to the call's request history
Issued(site, o) == [i \in 1..o.requests |-> site]

\* the lines of a text: text.split('\n')
SplitLines(s) ==
    LET Pieces(nl) ==
            [k \in 1..(Len(nl) + 1) |->
                SubSeq(s, IF k = 1 THEN 1 ELSE nl[k - 1] + 1,
                          IF k = Len(nl) + 1 THEN Len(s) ELSE nl[k] - 1)]
        NotNewline(c) == c # "\n"
        \* the positions of the newlines, in order: each follows a run of other
        \* characters or another newline
        RECURSIVE Newlines(_, _)
        Newlines(from, acc) ==
            LET Step(i) == IF i > Len(s) THEN acc ELSE Newlines(i + 1, Append(acc, i))
            IN  Step(FirstWhere(LAMBDA c : c = "\n", s, from))
    IN  Pieces(Newlines(1, <<>>))

\* str.lstrip() after a prefix: drop leading whitespace
LStrip(s) == SubSeq(s, FirstWhere(NotSpace, s, 1), Len(s))

\* re.sub(r'^[\d]+[.\)]\s*', '', line)
StripNumbering(line) ==
    LET Cut(p) == IF p > 1 /\ p <= Len(line) /\ Char(line, p) \in {".", ")"}
                  THEN LStrip(SubSeq(line, p + 1, Len(line)))
                  ELSE line
    IN  Cut(FirstWhere(LAMBDA c : ~IsDigit(c), line, 1))

\* re.sub(r'^[-*•]\s*', '', cleaned).strip()
StripBullet(line) ==
    IF Len(line) > 0 /\ Char(line, 1) \in {"-", "*"}
    THEN Strip(SubSeq(line, 2, Len(line)))
    ELSE Strip(line)

\* send_prompt_for_list, after send_prompt returned raw
ParseList(rawText) ==
    LET Keep(c) == c # "" /\ 3 < Len(c) /\ Len(c) < 200
        Clean(lines) == [k \in 1..Len(lines) |-> StripBullet(StripNumbering(Strip(lines[k])))]
    IN  SelectSeq(Clean(SplitLines(rawText)), Keep)

-----------------------------------------------------------------------------
(* Tokenising                                                              *)

IsWordChar(c) == LowerChar(c) \in LowerSet \/ IsDigit(c) \/ c = "_"

AllDigits(w) == Len(w) > 0 /\ \A i \in 1..Len(w) : IsDigit(Char(w, i))

\* sum of f over 1..n
RECURSIVE SumTo(_, _)
SumTo(f(_), n) == IF n = 0 THEN 0 ELSE f(n) + SumTo(f, n - 1)

\* round(num / den, digits) as an integer number of 10^-digits units
RoundDiv(num, den, scale) == ((2 * scale * num) + den) \div (2 * den)

-----------------------------------------------------------------------------
(* research_engine.py: alignment and keyword analysis                      *)

STOPWORDS ==
    {"the", "a", "an", "and", "or", "but", "in", "on", "at", "to", "for",
     "of", "with", "by", "from", "is", "it", "its", "this", "that", "are",
     "was", "were", "be", "been", "being", "have", "has", "had", "do", "does",
     "did", "will", "would", "could", "should", "may", "might", "can", "shall",
     "not", "no", "nor", "so", "if", "then", "than", "too", "very", "just",
     "about", "above", "after", "again", "all", "also", "am", "as", "any",
     "because", "before", "below", "between", "both", "each", "few", "get",
     "got", "he", "her", "here", "him", "his", "how", "i", "into", "me",
     "more", "most", "my", "new", "now", "only", "other", "our", "out",
     "over", "own", "same", "she", "some", "such", "them", "there", "these",
     "they", "those", "through", "under", "up", "us", "we", "what", "when",
     "where", "which", "while", "who", "whom", "why", "you", "your", "one",
     "two", "use", "used", "using", "make", "like", "know", "see", "way",
     "even", "well", "back", "much", "many", "still", "come", "take", "say",
     "said", "need", "look", "think", "want", "give", "first", "last", "long",
     "great", "little", "right", "good", "big", "high", "different", "small",
     "large", "next", "early", "young", "important", "let", "thing", "things",
     "go", "going", "went", "really", "read", "best", "top", "help", "try",
     "every", "keep", "work", "working", "put", "end", "start", "turn"}

\* _alignment_keywords
AlignmentKeywords(niche) ==
    LET cat == DetectNicheCategory(niche)
        IsKw(w) == Len(w) > 3 /\ w \notin STOPWORDS
    IN  IF cat # ""
        THEN (CHOOSE e \in Range(NICHE_KEYWORD_MAP) : e.cat = cat).kws
        ELSE SelectSeq(Split(Lower(niche)), IsKw)

\* check_niche_alignment; ratios are kept in hundredths
CheckNicheAlignment(data, niche) ==
    LET Hit(kws, text) == IF \E k \in DOMAIN kws : Contains(text, kws[k]) THEN 1 ELSE 0
        Report(kws, aligned, total) ==
            [aligned_count |-> aligned, total_count |-> total,
             alignment_ratio |-> IF total > 0 THEN RoundDiv(aligned, total, 100) ELSE 0,
             drift_detected |-> IF total > 0 THEN 10 * aligned < 4 * total ELSE TRUE,
             drift_warning |-> IF (IF total > 0 THEN 10 * aligned < 4 * total ELSE TRUE)
                               THEN "Drift: only " \o NumStr(aligned) \o "/" \o NumStr(total)
                                    \o " results match niche keywords."
                               ELSE "",
             alignment_keywords |-> Take(kws, 5)]
        Check(kws) ==
            IF Len(kws) = 0
            THEN [aligned_count |-> Len(data), total_count |-> Len(data),
                  alignment_ratio |-> 100, drift_detected |-> FALSE,
                  drift_warning |-> "", alignment_keywords |-> <<>>]
            ELSE Report(kws,
                        SumTo(LAMBDA i : Hit(kws, Lower(data[i].title \o " " \o data[i].snippet
                                                        \o " " \o data[i].content)),
                              Len(data)),
                        Len(data))
    IN  Check(AlignmentKeywords(niche))

\* re.sub(r'[^a-z\s]', ' ', text.lower()).split(), filtered as in
\* analyze_keyword_frequency
KeywordTokens(text) ==
    LET IsKw(w) == w \notin STOPWORDS /\ Len(w) > 2
    IN  SelectSeq(Runs(Lower(text), LAMBDA c : c \in LowerSet), IsKw)

RECURSIVE ConcatAll(_)
ConcatAll(qs) == IF Len(qs) = 0 THEN <<>> ELSE qs[1] \o ConcatAll(Tail(qs))

\* Counter(words).most_common(top_n): by count, ties in first-seen order
RECURSIVE MostCommonLoop(_, _, _, _)
MostCommonLoop(count, first, left, n) ==
    IF n = 0 \/ left = {} THEN <<>>
    ELSE LET Pick(best) == <<[word |-> best, count |-> count[best]]>>
                           \o MostCommonLoop(count, first, left \ {best}, n - 1)
         IN  Pick(CHOOSE w \in left : \A v \in left :
                      \/ count[w] > count[v]
                      \/ (count[w] = count[v] /\ first[w] <= first[v]))

MostCommon(words, n) ==
    MostCommonLoop([w \in Range(words) |-> Cardinality({i \in DOMAIN words : words[i] = w})],
                   [w \in Range(words) |-> SetMin({i \in DOMAIN words : words[i] = w})],
                   Range(words), n)

\* analyze_keyword_frequency(research_data, top_n)
AnalyzeKeywordFrequency(data, top_n) ==
    LET Texts(i) == SelectSeq(<<data[i].title, data[i].snippet, data[i].content>>,
                              LAMBDA t : t # "")
        Words(texts) == ConcatAll([i \in 1..Len(texts) |-> KeywordTokens(texts[i])])
    IN  MostCommon(Words(ConcatAll([i \in 1..Len(data) |-> Texts(i)])), top_n)

-----------------------------------------------------------------------------
(* intelligence_engine.py                                                  *)

GAP_THRESHOLD_TENTHS == 3

MAX_COMPETITIVE_CHECKS == 5

MAX_SUBDOMAINS == 15

MIN_SUBDOMAINS == 5

INTEL_STOPWORDS ==
    {"the", "a", "an", "and", "or", "but", "in", "on", "at", "to", "for",
     "of", "with", "by", "from", "is", "it", "this", "that", "are", "was",
     "have", "has", "do", "does", "will", "would", "could", "should", "not",
     "no", "so", "if", "than", "very", "just", "about", "all", "also", "as",
     "any", "get", "how", "into", "more", "most", "new", "now", "only",
     "other", "our", "out", "some", "them", "there", "these", "they", "those",
     "up", "we", "what", "when", "where", "which", "who", "why", "you",
     "your", "one", "use", "like", "know", "see", "way", "even", "well",
     "back", "much", "many", "still", "come", "take", "say", "need", "think",
     "want", "give", "first", "last", "right", "good", "help", "try",
     "every", "keep", "work", "start", "top", "best", "make", "used"}

\* _fallback_subdomains
FallbackSubdomains ==
    <<"getting started", "common mistakes", "advanced strategies",
      "tools and resources", "case studies", "industry trends",
      "monetization", "audience building", "content creation",
      "community building", "automation", "analytics and metrics",
      "collaboration", "personal branding", "scaling operations">>

\* str.rstrip('.')
RStripDot(s) == SubSeq(s, 1, LastWhere(LAMBDA c : c # ".", s, Len(s)))

\* a generation that returns what it cleaned however little that is
GenerateWithoutMinimum(o) ==
    LET Words(n) == 2 <= n /\ n <= 8
        Keep(i) == Strip(i) # "" /\ Words(Len(Split(i))) /\ Len(i) < 100
        Clean(kept) == Take([k \in 1..Len(kept) |-> RStripDot(Strip(kept[k]))], MAX_SUBDOMAINS)
    IN  IF Failed(o)
        THEN [subdomains |-> FallbackSubdomains,
              log |-> "Subdomain generation failed: " \o Take(o.msg, 60) \o ". Using fallback."]
        ELSE [subdomains |-> Clean(SelectSeq(ParseList(o.text), Keep)), log |-> "Generated."]

\* generate_dynamic_subdomains, given send_prompt's outcome o:
\* [subdomains, log] (log: the entry appended)
GenerateDynamicSubdomains(o) ==
    LET Words(n) == 2 <= n /\ n <= 8
        Keep(i) == Strip(i) # "" /\ Words(Len(Split(i))) /\ Len(i) < 100
        Clean(kept) == Take([k \in 1..Len(kept) |-> RStripDot(Strip(kept[k]))], MAX_SUBDOMAINS)
        Answer(cleaned) ==
            IF Len(cleaned) < MIN_SUBDOMAINS
            THEN [subdomains |-> FallbackSubdomains,
                  log |-> "LLM returned few subdomains. Using fallback."]
            ELSE [subdomains |-> cleaned,
                  log |-> "Generated " \o NumStr(Len(cleaned)) \o " dynamic subdomains."]
    IN  IF Failed(o)
        THEN [subdomains |-> FallbackSubdomains,
              log |-> "Subdomain generation failed: " \o Take(o.msg, 60) \o ". Using fallback."]
        ELSE Answer(Clean(SelectSeq(ParseList(o.text), Keep)))

\* a corpus made of the titles only
GapCorpusTitles(data) == JoinSpace([i \in 1..Len(data) |-> Lower(data[i].title)])

\* an entry whose coverage divides by all the words of the subdomain
GapEntryAllWords(corpus, sd) ==
    LET LongWord(w) == Len(w) > 2
        Matches(words) == Cardinality({k \in DOMAIN words : Contains(corpus, Lower(words[k]))})
        Entry(n, matches) ==
            [subdomain |-> sd,
             similarity |-> IF n > 0 THEN RoundDiv(matches, n, 1000) ELSE 0,
             is_gap |-> IF n > 0 THEN 10 * matches < GAP_THRESHOLD_TENTHS * n ELSE TRUE,
             method |-> "keyword"]
    IN  Entry(Len(Split(sd)), Matches(SelectSeq(Split(sd), LongWord)))

\* _keyword_gaps: the corpus string
GapCorpus(data) ==
    JoinSpace([i \in 1..Len(data) |->
        Lower(data[i].title \o " " \o data[i].snippet \o " "
              \o data[i].content \o " " \o data[i].summary)])

\* one entry of _keyword_gaps: coverage = matches / len(words), similarity in
\* thousandths
GapEntry(corpus, sd) ==
    LET LongWord(w) == Len(w) > 2
        Matches(words) == Cardinality({k \in DOMAIN words : Contains(corpus, Lower(words[k]))})
        Entry(n, matches) ==
            [subdomain |-> sd,
             similarity |-> IF n > 0 THEN RoundDiv(matches, n, 1000) ELSE 0,
             is_gap |-> IF n > 0 THEN 10 * matches < GAP_THRESHOLD_TENTHS * n ELSE TRUE,
             method |-> "keyword"]
        Cover(words) == Entry(Len(words), Matches(words))
    IN  Cover(SelectSeq(Split(sd), LongWord))

\* a sort key that puts the best covered subdomain first
GapKeyDescending(a, b) == a.similarity >= b.similarity

\* results.sort(key=lambda x: (not x["is_gap"], x["similarity"])): stable
GapKeyLeq(a, b) ==
    \/ (a.is_gap /\ ~b.is_gap)
    \/ (a.is_gap = b.is_gap /\ a.similarity <= b.similarity)

RECURSIVE InsertGap(_, _)
InsertGap(sorted, g) ==
    IF Len(sorted) = 0 THEN <<g>>
    ELSE IF GapKeyLeq(sorted[1], g)
         THEN <<sorted[1]>> \o InsertGap(Tail(sorted), g)
         ELSE <<g>> \o sorted

RECURSIVE SortGaps(_)
SortGaps(q) ==
    IF Len(q) = 0 THEN <<>>
    ELSE InsertGap(SortGaps(SubSeq(q, 1, Len(q) - 1)), q[Len(q)])

\* _keyword_gaps
KeywordGaps(data, subdomains) ==
    LET Entries(corpus) == [k \in 1..Len(subdomains) |-> GapEntry(corpus, subdomains[k])]
    IN  SortGaps(Entries(GapCorpus(data)))

\* _count_domains(results, n=5)
Domain(url) ==
    LET p == IF StartsWith(url, "https://") THEN 9
             ELSE IF StartsWith(url, "http://") THEN 8 ELSE 0
        rest == IF p = 0 THEN "" ELSE SubSeq(url, p, Len(url))
        slash == {i \in 1..Len(rest) : Char(rest, i) = "/"}
        host == Lower(IF slash = {} THEN rest ELSE SubSeq(rest, 1, SetMin(slash) - 1))
    IN  IF StartsWith(host, "www.") THEN SubSeq(host, 5, Len(host)) ELSE host

CountDomains(results, n) ==
    Cardinality({Domain(r.url) : r \in {x \in Range(Take(results, n)) : Domain(x.url) # ""}})

\* a grading by the count alone whenever the count is of no help for LOW
CheckIntensityByCount(gap_phrase, probe) ==
    LET Level(found, domains) ==
            IF (probe.count >= 0 /\ probe.count < 10000 /\ domains <= 3)
               \/ (probe.count < 0 /\ found < 3) THEN "LOW"
            ELSE IF probe.count >= 0 /\ probe.count < 100000 THEN "MEDIUM"
            ELSE "HIGH"
        Probe(parsed) ==
            [gap |-> gap_phrase, intensity_level |-> Level(Len(parsed), CountDomains(parsed, 5)),
             result_count |-> probe.count, unique_domains |-> CountDomains(parsed, 5)]
    IN  IF ~probe.ok
        THEN [gap |-> gap_phrase, intensity_level |-> "UNKNOWN", result_count |-> -1,
              unique_domains |-> 0]
        ELSE Probe(ParseBing(probe.links))

\* check_competitive_intensity, given the probe's outcome:
\* probe = [ok, count, links] (count = _estimate_bing_count, -1 if absent)
CheckCompetitiveIntensity(gap_phrase, probe) ==
    LET Level(found, domains) ==
            IF probe.count < 0
            THEN IF found < 3 THEN "LOW"
                 ELSE IF domains <= 3 THEN "MEDIUM" ELSE "HIGH"
            ELSE IF probe.count < 10000 /\ domains <= 3 THEN "LOW"
            ELSE IF probe.count < 100000 THEN "MEDIUM"
            ELSE "HIGH"
        Report(found, domains) ==
            [gap |-> gap_phrase, intensity_level |-> Level(found, domains),
             result_count |-> probe.count, unique_domains |-> domains]
        Probe(parsed) == Report(Len(parsed), CountDomains(parsed, 5))
    IN  IF ~probe.ok
        THEN [gap |-> gap_phrase, intensity_level |-> "UNKNOWN", result_count |-> -1,
              unique_domains |-> 0]
        ELSE Probe(ParseBing(probe.links))

\* a grading that looks at the number of urls, not at the characters extracted
AssessSignalByUrls(data) ==
    [total_urls |-> Len(data), urls_with_content |-> 0, urls_with_summaries |-> 0,
     total_content_chars |-> 0, avg_heuristic_score |-> 0,
     confidence |-> IF Len(data) >= MIN_COMBINED_RESULTS THEN "MEDIUM" ELSE "LOW"]

\* assess_signal; the average score is kept in tenths
AssessSignal(data) ==
    LET HasContent(i) == IF Strip(data[i].content) # "" THEN 1 ELSE 0
        HasSummary(i) == IF Strip(data[i].summary) # "" THEN 1 ELSE 0
        Chars(i) == Len(data[i].content)
        Score(i) == data[i].score
        total_chars == SumTo(Chars, Len(data))
    IN  [total_urls |-> Len(data),
         urls_with_content |-> SumTo(HasContent, Len(data)),
         urls_with_summaries |-> SumTo(HasSummary, Len(data)),
         total_content_chars |-> total_chars,
         avg_heuristic_score |-> IF Len(data) > 0
                                 THEN RoundDiv(SumTo(Score, Len(data)), Len(data), 10) ELSE 0,
         confidence |-> IF total_chars > 5000 THEN "HIGH"
                        ELSE IF total_chars > 2000 THEN "MEDIUM" ELSE "LOW"]

\* re.search(r'\b(pat)\b', s, re.I) for a literal pat, on l = s lower-cased
BoundedMatch(l, pat) ==
    \E i \in 1..(Len(l) - Len(pat) + 1) :
        /\ SubSeq(l, i, i + Len(pat) - 1) = pat
        /\ (i = 1 \/ ~IsWordChar(Char(l, i - 1)))
        /\ (i + Len(pat) - 1 = Len(l) \/ ~IsWordChar(Char(l, i + Len(pat))))

\* list_re, guide_re, compare_re of analyze_structural_saturation, on the
\* lower-cased text l
ListRe(l) ==
    \/ \E w \in Range(Runs(l, IsWordChar)) : AllDigits(w)
    \/ \E p \in {"top", "best", "list", "ultimate"} : BoundedMatch(l, p)

GuideRe(l) ==
    \E p \in {"guide", "tutorial", "how to", "how-to", "how\tto", "how\nto",
              "step by", "step-by", "step\tby", "step\nby"} : BoundedMatch(l, p)

CompareRe(l) ==
    \E p \in {"vs", "versus", "compar", "alternative"} : BoundedMatch(l, p)

\* a pattern lit1\s+lit2\s+...: toks are the literals, "\\d" stands for \d+
RECURSIVE MatchAt(_, _, _)
MatchAt(s, i, toks) ==
    IF Len(toks) = 0 THEN TRUE
    ELSE IF toks[1] = "\\d" THEN i <= Len(s) /\ IsDigit(Char(s, i))
    ELSE /\ i + Len(toks[1]) - 1 <= Len(s)
         /\ SubSeq(s, i, i + Len(toks[1]) - 1) = toks[1]
         /\ \/ Len(toks) = 1
            \/ /\ i + Len(toks[1]) <= Len(s)
               /\ IsSpace(Char(s, i + Len(toks[1])))
               /\ MatchAt(s, FirstWhere(NotSpace, s, i + Len(toks[1])), Tail(toks))

\* content_list_re.search(txt), flags I | M, on l = txt lower-cased
ContentListRe(l) ==
    \E i \in 1..Len(l) :
        \/ /\ (i = 1 \/ Char(l, i - 1) = "\n")
           /\ IsDigit(Char(l, i))
           /\ \E stop \in {FirstWhere(LAMBDA c : ~IsDigit(c), l, i)} :
                  stop <= Len(l) /\ Char(l, stop) = "."
        \/ \E toks \in {<<"top", "\\d">>, <<"best", "\\d">>, <<"in", "this", "guide">>,
                        <<"here", "are", "\\d">>, <<"step", "\\d">>} : MatchAt(l, i, toks)
        \/ (Char(l, i) = "#" /\ i < Len(l) /\ IsDigit(Char(l, i + 1)))

\* the words the bigrams are built from
BigramTokens(text) ==
    LET IsKw(w) == w \notin INTEL_STOPWORDS /\ Len(w) > 2
    IN  SelectSeq(Runs(Lower(text), LAMBDA c : c \in LowerSet), IsKw)

\* a report for which half of the titles, or half of the texts, is saturation
SaturationFromHalf(data) ==
    LET total == Len(data)
        T(i) == data[i].title \o " " \o data[i].snippet
        Txt(i) == IF data[i].summary # "" THEN data[i].summary ELSE data[i].content
        Report(lc, gc, cc, samples_text, clc, saturated) ==
            [list_count |-> lc, guide_count |-> gc, comparison_count |-> cc, total |-> total,
             list_percentage |-> RoundDiv(100 * lc, total, 10),
             content_list_count |-> clc,
             content_list_percentage |-> IF samples_text > 0
                                         THEN RoundDiv(100 * clc, samples_text, 10) ELSE 0,
             dominant_format |-> IF saturated THEN "Listicle saturation"
                                 ELSE IF 10 * gc > 4 * total THEN "Guide/tutorial heavy"
                                 ELSE IF 10 * cc > 3 * total THEN "Comparison heavy"
                                 ELSE "Mixed formats",
             is_saturated |-> saturated,
             top_bigrams |-> <<>>]
        Counted(lc, gc, cc, samples_text, clc) ==
            Report(lc, gc, cc, samples_text, clc,
                   2 * lc >= total \/ (samples_text > 0 /\ 2 * clc >= samples_text))
    IN  IF total = 0
        THEN [list_count |-> 0, guide_count |-> 0, comparison_count |-> 0, total |-> 0,
              list_percentage |-> 0, content_list_percentage |-> 0,
              dominant_format |-> "Unknown", is_saturated |-> FALSE, top_bigrams |-> <<>>]
        ELSE Counted(SumTo(LAMBDA i : IF ListRe(Lower(T(i))) THEN 1 ELSE 0, total),
                     SumTo(LAMBDA i : IF GuideRe(Lower(T(i))) THEN 1 ELSE 0, total),
                     SumTo(LAMBDA i : IF CompareRe(Lower(T(i))) THEN 1 ELSE 0, total),
                     SumTo(LAMBDA i : IF Txt(i) # "" THEN 1 ELSE 0, total),
                     SumTo(LAMBDA i : IF Txt(i) # "" /\ ContentListRe(Lower(Txt(i))) THEN 1 ELSE 0,
                           total))

\* analyze_structural_saturation; percentages are kept in tenths of a percent
AnalyzeStructuralSaturation(data) ==
    LET total == Len(data)
        T(i) == data[i].title \o " " \o data[i].snippet
        Txt(i) == IF data[i].summary # "" THEN data[i].summary ELSE data[i].content
        Bigrams(words) == [i \in 1..(Len(words) - 1) |-> words[i] \o " " \o words[i + 1]]
        Top(top) == [i \in 1..Len(top) |-> [phrase |-> top[i].word, count |-> top[i].count]]
        Report(lc, gc, cc, samples_text, clc, saturated) ==
            [list_count |-> lc, guide_count |-> gc, comparison_count |-> cc, total |-> total,
             list_percentage |-> RoundDiv(100 * lc, total, 10),
             content_list_count |-> clc,
             content_list_percentage |-> IF samples_text > 0
                                         THEN RoundDiv(100 * clc, samples_text, 10) ELSE 0,
             dominant_format |-> IF saturated THEN "Listicle saturation"
                                 ELSE IF 10 * gc > 4 * total THEN "Guide/tutorial heavy"
                                 ELSE IF 10 * cc > 3 * total THEN "Comparison heavy"
                                 ELSE "Mixed formats",
             is_saturated |-> saturated,
             top_bigrams |-> Top(MostCommon(Bigrams(ConcatAll([i \in 1..total |->
                                                        BigramTokens(T(i))])), 10))]
        Counted(lc, gc, cc, samples_text, clc) ==
            Report(lc, gc, cc, samples_text, clc,
                   2 * lc > total \/ (samples_text > 0 /\ 2 * clc > samples_text))
    IN  IF total = 0
        THEN [list_count |-> 0, guide_count |-> 0, comparison_count |-> 0, total |-> 0,
              list_percentage |-> 0, content_list_percentage |-> 0,
              dominant_format |-> "Unknown", is_saturated |-> FALSE, top_bigrams |-> <<>>]
        ELSE Counted(SumTo(LAMBDA i : IF ListRe(Lower(T(i))) THEN 1 ELSE 0, total),
                     SumTo(LAMBDA i : IF GuideRe(Lower(T(i))) THEN 1 ELSE 0, total),
                     SumTo(LAMBDA i : IF CompareRe(Lower(T(i))) THEN 1 ELSE 0, total),
                     SumTo(LAMBDA i : IF Txt(i) # "" THEN 1 ELSE 0, total),
                     SumTo(LAMBDA i : IF Txt(i) # "" /\ ContentListRe(Lower(Txt(i))) THEN 1 ELSE 0,
                           total))

-----------------------------------------------------------------------------
(* strategy_engine.py                                                      *)

\* the six header patterns of _split_sections: key, section number, title
SECTION_PATTERNS ==
    << [key |-> "positioning", num |-> "1", title |-> "strategic positioning"],
       [key |-> "pillars", num |-> "2", title |-> "content pillars"],
       [key |-> "hooks", num |-> "3", title |-> "optimized hooks"],
       [key |-> "scripts", num |-> "4", title |-> "short-form content scripts"],
       [key |-> "ctas", num |-> "5", title |-> "cta variations"],
       [key |-> "calendar", num |-> "6", title |-> "7-day content calendar"] >>

\* where the optional prefix (?:##?\s*N\.?\s*) that ends right before q starts
\* (q itself when there is no such prefix)
PrefixStart(s, q, num) ==
    LET a == LastWhere(NotSpace, s, q - 1)
        b == IF a > 0 /\ Char(s, a) = "." THEN a - 1 ELSE a
        c == IF b > 0 /\ Char(s, b) = num THEN LastWhere(NotSpace, s, b - 1) ELSE 0
        ok == b > 0 /\ Char(s, b) = num /\ c > 0 /\ Char(s, c) = "#"
    IN  IF ~ok THEN q
        ELSE IF c > 1 /\ Char(s, c - 1) = "#" THEN c - 1 ELSE c

\* re.search(pat, raw, re.IGNORECASE) for one header, on the lower-cased text
\* l: <<start, end>>, 1-based
\* first character and last character of the match, or <<>> when not found
FindHeader(l, p) ==
    LET Match(at) == IF at = {} THEN <<>>
                     ELSE <<PrefixStart(l, SetMin(at), p.num), SetMin(at) + Len(p.title) - 1>>
    IN  Match({i \in 1..(Len(l) - Len(p.title) + 1) : SubSeq(l, i, i + Len(p.title) - 1) = p.title})

\* str.lstrip(":-")
LStripColonDash(s) == SubSeq(s, FirstWhere(LAMBDA c : c \notin {":", "-"}, s, 1), Len(s))

\* a split that asks for no minimum of headers (the bodies left out)
SplitAnyHeaders(text) ==
    LET Keys(found) == IF found = {} THEN [key \in {"full_strategy"} |-> text]
                       ELSE [key \in {SECTION_PATTERNS[k].key : k \in found} |-> ""]
        Lowered(l) == Keys({k \in DOMAIN SECTION_PATTERNS : FindHeader(l, SECTION_PATTERNS[k]) # <<>>})
    IN  Lowered(Lower(text))

\* _split_sections
SplitSections(text) ==
    LET Sections(header, found) ==
            LET StartOf(k) == header[k][1]
                EndOf(k) == header[k][2]
                \* boundaries.sort(key=start) is stable: ties keep pattern order
                Before(j, k) == StartOf(j) < StartOf(k) \/ (StartOf(j) = StartOf(k) /\ j < k)
                After(k) == {j \in found : Before(k, j)}
                StopAt(k, later) ==
                    IF later = {} THEN Len(text)
                    ELSE StartOf(CHOOSE j \in later : \A m \in later : m = j \/ Before(j, m)) - 1
                Body(k, stop) == IF stop > EndOf(k) THEN SubSeq(text, EndOf(k) + 1, stop) ELSE ""
            IN  IF Cardinality(found) < 3
                THEN [key \in {"full_strategy"} |-> text]
                ELSE [key \in {SECTION_PATTERNS[k].key : k \in found} |->
                         LET Section(k) == Strip(LStripColonDash(Strip(Body(k, StopAt(k, After(k))))))
                         IN  Section(CHOOSE j \in found : SECTION_PATTERNS[j].key = key)]
        Headers(header) == Sections(header, {k \in DOMAIN SECTION_PATTERNS : header[k] # <<>>})
        Lowered(l) == Headers([k \in DOMAIN SECTION_PATTERNS |-> FindHeader(l, SECTION_PATTERNS[k])])
    IN  Lowered(Lower(text))

\* a cleaning that lets the internal keys through
CleanNothing(sections) == sections

\* not key.startswith("_"), applied to the dict generate_strategy returns
CleanStrategy(sections) ==
    [key \in {k \in DOMAIN sections : ~StartsWith(k, "_")} |-> sections[key]]

-----------------------------------------------------------------------------
(* The environment: what the providers, the pages, the backend and the     *)
(* callers can answer.  Each set is a small sample of the possible inputs. *)

MaxPageResults == 13

MaxCalls == 2

MaxClock == 50

Link(t, h, s) == [title |-> t, href |-> h, snippet |-> s]

DdgPage3 ==
    << Link("7 founder hacks", "//duckduckgo.com/l/?uddg=https://a.com/x&rut=1", "proven tips"),
       Link("Founder focus guide", "https://A.com/x/", "how to focus"),
       Link("Deep work for founders?", "https://b.com/deep", ""),
       Link("Sponsored", "https://duckduckgo.com/y.js", "") >>

DdgPage5 ==
    << Link("Top 10 founder tools", "https://t.com/tools", "best list"),
       Link("Founder hiring vs outsourcing", "https://h.com/hire", ""),
       Link("The ultimate startup guide", "https://g.com/guide/", "step by step"),
       Link("Indie maker diary", "https://i.com/diary", ""),
       Link("Why founders burn out", "https://w.com/burn", "a hidden mistake") >>

DdgPage2 ==
    << Link("Deep work, again", "https://B.com/deep/", ""),
       Link("Startup execution notes", "https://c.com/notes", "") >>

BingPage3 ==
    << Link("5 startup growth loops", "https://d.com/a", "explosive"),
       Link("Growth loops", "https://D.com/a/", ""),
       Link("Founder diary?", "https://e.com/", ""),
       Link("More results", "https://www.bing.com/search?q=x", "") >>

BingPageBig ==
    [i \in 1..MaxPageResults |->
        Link(IF i % 5 = 0 THEN "Why post " \o NumStr(i) \o "?" ELSE "Post " \o NumStr(i),
             "https://s" \o NumStr(i) \o ".com/p", "")]

\* one HTTP attempt of _fetch_ddg / _fetch_bing
AttemptOk(links) == [ok |-> TRUE, links |-> links, err |-> ""]

AttemptFail == [ok |-> FALSE, links |-> <<>>, err |-> "timeout"]

\* the attempts a provider call can meet (one entry per possible attempt)
DdgPrimaryAttempts ==
    { <<AttemptFail, AttemptFail>>, <<AttemptOk(DdgPage3), AttemptFail>>,
      <<AttemptFail, AttemptOk(DdgPage5)>> }

DdgEnrichedAttempts ==
    { <<AttemptFail, AttemptFail>>, <<AttemptOk(DdgPage2), AttemptFail>> }

BingAttempts ==
    { <<AttemptFail, AttemptFail>>, <<AttemptFail, AttemptOk(<<>>)>>,
      <<AttemptOk(BingPage3), AttemptFail>>, <<AttemptOk(BingPageBig), AttemptFail>> }

\* pages: [ok, html, cleaned]
PageSentence == "founders ship small tools daily. "

\* what the pages of one run answer, by position in the extraction loop
\* (a page, a document that is no html, a page with too little text, a
\* failed request, a page longer than MAX_CONTENT_LENGTH)
PagesMixed ==
    << [ok |-> TRUE, html |-> TRUE, cleaned |-> Rep(PageSentence, 10)],
       [ok |-> TRUE, html |-> FALSE, cleaned |-> ""],
       [ok |-> TRUE, html |-> TRUE, cleaned |-> Rep("thin page ", 29)],
       [ok |-> FALSE, html |-> FALSE, cleaned |-> ""],
       [ok |-> TRUE, html |-> TRUE, cleaned |-> Rep(PageSentence, 40)] >>

\* backend answers, two per send_prompt call (the second one is consulted
\* only on an overflow retry)
Unreachable == <<Ans("unreachable", ""), Ans("unreachable", "")>>

HttpError == <<Ans("http_error", "model crashed"), Ans("http_error", "model crashed")>>

Says(text) == <<Ans("ok", text), Ans("ok", text)>>

OverflowThen(text) == <<Ans("json_overflow", "context too long"), Ans("ok", text)>>

Summary == Says(" Hook: a question. CTA: subscribe. Top 5 list. ")

\* what the tail of research_niche can meet: the pages, the backend's answer to
\* each summary prompt, and how _save_cache can end ("ok", or the call that
\* raised an OSError: os.makedirs, open, or the writing)
FinishCases ==
    { [pages |-> PagesMixed, answers |-> Summary, saves |-> {"ok"}],
      [pages |-> PagesMixed, answers |-> Unreachable, saves |-> {"makedirs", "open"}],
      [pages |-> [i \in 1..CONTENT_EXTRACT_LIMIT |-> [ok |-> FALSE, html |-> FALSE, cleaned |-> ""]],
       answers |-> Summary, saves |-> {"write"}] }

SubdomainAnswers ==
    { HttpError,
      Says("1. pricing pages\n2. cold outreach\n- hiring engineers\nnope\n* way too short a list."),
      Says("1. pricing pages\n2. founder hiring.\n3. growth loops\n4. tools stack\n5. deep work\n6. fundraising decks") }

InsightAnswers == { Unreachable, HttpError, Says("Hooks open with a question.") }

DraftHeaders ==
    "## 1. STRATEGIC POSITIONING STATEMENT\nWe are builders.\n"
    \o "## 2. CONTENT PILLARS\n- shipping\n## 3. Optimized Hooks\nWhy ship?\n"
    \o "CTA VARIATIONS: Join."

\* a draft that follows the prompt: all six sections under their headers
DraftSix ==
    "## 1. STRATEGIC POSITIONING STATEMENT\nBuilders, not gurus.\n"
    \o "## 2. CONTENT PILLARS\n- shipping\n## 3. OPTIMIZED HOOKS\nWhy ship?\n"
    \o "## 4. SHORT-FORM CONTENT SCRIPTS\nHook, body, CTA.\n"
    \o "## 5. CTA VARIATIONS\nJoin.\n## 6. 7-DAY CONTENT CALENDAR\nMon: post."

DraftAnswers ==
    { Unreachable, HttpError, Says(""), Says(Rep("x", 99) \o " \n"),
      Says(Rep("strategy..", 10)), OverflowThen(DraftHeaders), Says(DraftSix) }

RefineAnswers ==
    { Unreachable, HttpError, Says(""), Says(Rep("sharper...", 5)),
      Says(Rep("sharper...", 5) \o "!"), Says(DraftHeaders \o " Sharper.") }

\* competitive probes: [ok, count, links], one per probed gap
ProbeFamilies ==
    { [i \in 1..MAX_COMPETITIVE_CHECKS |-> [ok |-> TRUE, count |-> 900, links |-> BingPage3]],
      [i \in 1..MAX_COMPETITIVE_CHECKS |->
          IF i = 1 THEN [ok |-> FALSE, count |-> -1, links |-> <<>>]
          ELSE [ok |-> TRUE, count |-> 250000, links |-> BingPageBig]] }

\* the calls the clients make
Requests ==
    { [niche |-> n, platform |-> "LinkedIn", audience |-> "indie founders", goal |-> g] :
          n \in {"business productivity", "  "}, g \in {"newsletter signups", "\t "} }

ValidRequest ==
    [niche |-> "business productivity", platform |-> "LinkedIn",
     audience |-> "indie founders", goal |-> "newsletter signups"]

-----------------------------------------------------------------------------
(* research_engine.py: cache, provider calls, research_niche               *)

MAX_SUMMARY_WORDS == 300

\* the list _save_cache serialises: six fields per item, with d.get defaults
Serializable(data) ==
    [i \in 1..Len(data) |->
        [title |-> Get(data[i], "title", ""), snippet |-> Get(data[i], "snippet", ""),
         url |-> Get(data[i], "url", ""), content |-> Get(data[i], "content", ""),
         score |-> Get(data[i], "score", 0), summary |-> Get(data[i], "summary", "")]]

\* a cache file: modification time, and what open and json.load make of it
\* (kind "list": a JSON array, items; the other kinds are those of Damaged)
CacheFile(mtime, items) == [mtime |-> mtime, kind |-> "list", items |-> items]

\* a cache file that holds no item list: "unreadable" (open raises an OSError),
\* "not_json" (json.load raises a JSONDecodeError), "undecodable" (bytes that
\* are no UTF-8 text: reading raises a UnicodeDecodeError), "not_list" (a JSON
\* value that is no list)
Damaged(mtime, kind) == [mtime |-> mtime, kind |-> kind, items |-> <<>>]

UndecodableMsg == "'utf-8' codec can't decode byte 0xff in position 0: invalid start byte"

\* _load_cache raises: the except clause names JSONDecodeError and OSError,
\* and a UnicodeDecodeError is neither
LoadCacheRaises(dir, t, niche, platform) ==
    LET path == CachePath(niche, platform)
    IN  /\ path \in DOMAIN dir
        /\ ~(t - dir[path].mtime > CACHE_MAX_AGE_HOURS)
        /\ dir[path].kind = "undecodable"

\* a freshness test that already expires an entry of exactly the maximum age
LoadCacheExpiringEarly(dir, t, niche, platform) ==
    LET path == CachePath(niche, platform)
    IN  IF path \notin DOMAIN dir THEN <<>>
        ELSE IF t - dir[path].mtime >= CACHE_MAX_AGE_HOURS THEN <<>>
        ELSE IF dir[path].kind = "list" /\ Len(dir[path].items) > 0 THEN dir[path].items
        ELSE <<>>

\* _load_cache against the directory dir at time t
LoadCache(dir, t, niche, platform) ==
    LET path == CachePath(niche, platform)
    IN  IF path \notin DOMAIN dir THEN <<>>
        ELSE IF t - dir[path].mtime > CACHE_MAX_AGE_HOURS THEN <<>>
        ELSE IF dir[path].kind = "list" /\ Len(dir[path].items) > 0 THEN dir[path].items
        ELSE <<>>

\* _save_cache: the directory after the call.  save names how the call ended:
\* "ok", or the step that raised the OSError the except clause swallows
\* ("makedirs" and "open" leave the directory as it was, "write" leaves the
\* file open(path, 'w') created or truncated, with an incomplete text)
SaveCache(dir, t, niche, platform, data, save) ==
    IF save \in {"makedirs", "open"} THEN dir
    ELSE [p \in DOMAIN dir \cup {CachePath(niche, platform)} |->
            IF p # CachePath(niche, platform) THEN dir[p]
            ELSE IF save = "ok" THEN CacheFile(t, Serializable(data))
            ELSE Damaged(t, "not_json")]

\* an except clause that guards the directory and the open only
SwallowedBeforeWrite(save) == save \in {"makedirs", "open"}

\* _save_cache, lines 139-140: the failures "except OSError: pass" swallows
Swallowed(save) == save \in {"makedirs", "open", "write"}

\* _fetch_ddg / _fetch_bing: up to MAX_RETRIES attempts, the first success wins
Fetch(attempts) ==
    LET good == {i \in 1..MAX_RETRIES : attempts[i].ok}
    IN  IF good = {}
        THEN [ok |-> FALSE, links |-> <<>>, err |-> attempts[MAX_RETRIES].err, n |-> MAX_RETRIES]
        ELSE [ok |-> TRUE, links |-> attempts[SetMin(good)].links, err |-> "", n |-> SetMin(good)]

\* the HTTP requests one provider call issues
\* (ok: the attempt was answered)
Requested(provider, query, f) ==
    [i \in 1..f.n |-> [provider |-> provider, query |-> query, ok |-> f.ok /\ i = f.n]]

\* a summarize_page that asks the backend about any content that is not empty
SummarizeAnyLength(content, answers) ==
    IF content = ""
    THEN [summary |-> "", requests |-> 0]
    ELSE LET Cap(text, words) == IF Len(words) > MAX_SUMMARY_WORDS
                                  THEN JoinSpace(Take(words, MAX_SUMMARY_WORDS)) \o "..."
                                  ELSE text
             Sum(o) == IF Failed(o) THEN [summary |-> "", requests |-> o.requests]
                       ELSE [summary |-> Cap(o.text, Split(o.text)), requests |-> o.requests]
         IN  Sum(SendPrompt(answers))

\* summarize_page, given the backend's answers: [summary, requests]
SummarizePage(content, answers) ==
    IF content = "" \/ Len(content) < MIN_SUMMARY_INPUT
    THEN [summary |-> "", requests |-> 0]
    ELSE LET Cap(text, words) == IF Len(words) > MAX_SUMMARY_WORDS
                                  THEN JoinSpace(Take(words, MAX_SUMMARY_WORDS)) \o "..."
                                  ELSE text
             Sum(o) == IF Failed(o) THEN [summary |-> "", requests |-> o.requests]
                       ELSE [summary |-> Cap(o.text, Split(o.text)), requests |-> o.requests]
         IN  Sum(SendPrompt(answers))

\* a tail of research_niche that summarizes the title where no page was extracted
EnrichSummarizingAll(results, pages, answers) ==
    LET Content(scored, i) == IF i <= Min2(CONTENT_EXTRACT_LIMIT, Len(scored))
                              THEN ExtractPageContent(pages[i]) ELSE ""
        Summarised(r, sum) == [r EXCEPT !.summary = sum.summary, !.requests = sum.requests]
        Item(r, content) ==
            Summarised([r EXCEPT !.content = content] @@ [requests |-> 0],
                       SummarizePage(IF content # "" THEN content
                                     ELSE Rep(r.title \o " ", MIN_SUMMARY_INPUT), answers))
        Six(x) == [title |-> x.title, snippet |-> x.snippet, url |-> x.url,
                   content |-> x.content, score |-> x.score, summary |-> x.summary]
        Out(scored, extract_n, done) ==
            [items |-> [i \in 1..Len(done) |-> Six(done[i])],
             fetches |-> [i \in 1..extract_n |-> scored[i].url],
             requests |-> SumTo(LAMBDA i : done[i].requests, Len(done)),
             log |-> << "Extracted content from "
                          \o NumStr(SumTo(LAMBDA i : IF done[i].content # "" THEN 1 ELSE 0, extract_n))
                          \o "/" \o NumStr(extract_n) \o " pages.",
                        "Summarized "
                          \o NumStr(SumTo(LAMBDA i : IF done[i].summary # "" THEN 1 ELSE 0, Len(done)))
                          \o " pages." >>]
        Go(scored) == Out(scored, Min2(CONTENT_EXTRACT_LIMIT, Len(scored)),
                          [i \in 1..Len(scored) |-> Item(scored[i], Content(scored, i))])
    IN  Go(ScoreAndSort(Take(Dedup(results), MAX_RESULTS)))

\* research_niche from "deduped = _dedup(all_results)" to the return, for a
\* non-empty deduped list: [items, fetches, requests, log]
Enrich(results, pages, answers) ==
    LET Content(scored, i) == IF i <= Min2(CONTENT_EXTRACT_LIMIT, Len(scored))
                              THEN ExtractPageContent(pages[i]) ELSE ""
        Summarised(r, sum) == [r EXCEPT !.summary = sum.summary, !.requests = sum.requests]
        Item(r, content) ==
            IF content # ""
            THEN Summarised([r EXCEPT !.content = content] @@ [requests |-> 0],
                            SummarizePage(content, answers))
            ELSE r @@ [requests |-> 0]
        Six(x) == [title |-> x.title, snippet |-> x.snippet, url |-> x.url,
                   content |-> x.content, score |-> x.score, summary |-> x.summary]
        Out(scored, extract_n, done) ==
            [items |-> [i \in 1..Len(done) |-> Six(done[i])],
             fetches |-> [i \in 1..extract_n |-> scored[i].url],
             requests |-> SumTo(LAMBDA i : done[i].requests, Len(done)),
             log |-> << "Extracted content from "
                          \o NumStr(SumTo(LAMBDA i : IF done[i].content # "" THEN 1 ELSE 0, extract_n))
                          \o "/" \o NumStr(extract_n) \o " pages.",
                        "Summarized "
                          \o NumStr(SumTo(LAMBDA i : IF done[i].summary # "" THEN 1 ELSE 0, Len(done)))
                          \o " pages." >>]
        Go(scored) == Out(scored, Min2(CONTENT_EXTRACT_LIMIT, Len(scored)),
                          [i \in 1..Len(scored) |-> Item(scored[i], Content(scored, i))])
    IN  Go(ScoreAndSort(Take(Dedup(results), MAX_RESULTS)))

-----------------------------------------------------------------------------
(* State                                                                   *)

NoResult == <<>>

EmptyDict == <<>>

NoExc == [type |-> "", msg |-> ""]

\* d[k] = v on a dict
Put(d, k, v) == [x \in DOMAIN d \cup {k} |-> IF x = k THEN v ELSE d[x]]

\* result["pipeline_log"] is the list object log: what is appended to log is
\* seen through the result
Alias(r, l) == IF r = NoResult THEN r ELSE [r EXCEPT !.pipeline_log = l]

\* pass 2 of generate_strategy has not run
NoRefine == [kind |-> "", text |-> ""]

NoResponse == [success |-> FALSE, human_report |-> "", data |-> <<>>, error |-> "",
               error_type |-> "", sent |-> FALSE]

\* no cache file for the key
NoFile == [exists |-> FALSE, mtime |-> 0, bytes |-> <<>>]

\* what an earlier process left in the cache directory
InitCaches ==
    { [mtime \in {} |-> 0] }
    \cup { [p \in {CachePath(ValidRequest.niche, ValidRequest.platform)} |-> CacheFile(m, Enrich(ParseDdg(DdgPage5), PagesMixed, Summary).items)] :
              m \in {0, 1} }
    \cup { [p \in {CachePath(ValidRequest.niche, ValidRequest.platform)} |-> Damaged(1, "undecodable")] }

Init ==
    /\ pc = "idle"
    /\ args = ValidRequest
    /\ log = <<>>
    /\ result = NoResult
    /\ exc = NoExc
    /\ response = NoResponse
    /\ research_data = <<>>
    /\ queries = <<>>
    /\ all_results = <<>>
    /\ raw = ""
    /\ refined = NoRefine
    /\ strategy = EmptyDict
    /\ cache \in InitCaches
    /\ now = CACHE_MAX_AGE_HOURS + 1
    /\ start_time = 0
    /\ searchReqs = <<>>
    /\ pageFetches = <<>>
    /\ genReqs = <<>>
    /\ stages = <<>>
    /\ calls = 0
    /\ lastSaved = [p \in {q \in DOMAIN cache : cache[q].kind = "list"} |-> cache[p].items]
    /\ disk = NoFile
    /\ runs = <<>>

\* the lists the completed _save_cache calls left on disk, after one more call
Saved(saved, path, items, save) ==
    IF save \in {"makedirs", "open"} THEN saved
    ELSE [p \in (DOMAIN saved \cup {path}) \ (IF save = "ok" THEN {} ELSE {path}) |->
             IF p = path THEN items ELSE saved[p]]

\* a cache check that renews the modification time of the entry it returns
CacheCheckTouching ==
    /\ pc = "research"
    /\ IF LoadCacheRaises(cache, now, args.niche, args.platform)
       THEN /\ pc' = "research_raised"
            /\ UNCHANGED <<log, research_data, queries, all_results, cache>>
       ELSE \E cached \in {LoadCache(cache, now, args.niche, args.platform)} :
               IF Len(cached) > 0
               THEN /\ log' = Append(log, "Loaded " \o NumStr(Len(cached)) \o " results from cache.")
                    /\ research_data' = cached
                    /\ pc' = "research_ret"
                    /\ cache' = [cache EXCEPT ![CachePath(args.niche, args.platform)].mtime = now]
                    /\ UNCHANGED <<queries, all_results>>
               ELSE /\ \E q \in BuildQueries(args.niche, args.platform) : queries' = q
                    /\ all_results' = <<>>
                    /\ pc' = "ddg1"
                    /\ UNCHANGED <<log, research_data, cache>>
    /\ result' = Alias(result, log')
    /\ UNCHANGED <<disk, runs, strategy, args, exc, response, raw, refined, now, start_time, searchReqs,
                   pageFetches, genReqs, stages, calls, lastSaved>>

\* research_niche, lines 482-488: the cache check; what _load_cache raises
\* leaves research_niche
CacheCheck ==
    /\ pc = "research"
    /\ IF LoadCacheRaises(cache, now, args.niche, args.platform)
       THEN /\ pc' = "research_raised"
            /\ UNCHANGED <<log, research_data, queries, all_results>>
       ELSE \E cached \in {LoadCache(cache, now, args.niche, args.platform)} :
               IF Len(cached) > 0
               THEN /\ log' = Append(log, "Loaded " \o NumStr(Len(cached)) \o " results from cache.")
                    /\ research_data' = cached
                    /\ pc' = "research_ret"
                    /\ UNCHANGED <<queries, all_results>>
               ELSE /\ \E q \in BuildQueries(args.niche, args.platform) : queries' = q
                    /\ all_results' = <<>>
                    /\ pc' = "ddg1"
                    /\ UNCHANGED <<log, research_data>>
    /\ result' = Alias(result, log')
    /\ UNCHANGED <<disk, runs, strategy, args, exc, response, raw, refined, cache, now, start_time, searchReqs,
                   pageFetches, genReqs, stages, calls, lastSaved>>

\* a provider call after which the next provider is asked whatever was found
ProviderCallOn(provider, query, announce, okPrefix, okSuffix, failPrefix, attempts, Parse(_), nextpc) ==
    \E f \in {Fetch(attempts)} : \E parsed \in {Parse(f.links)} :
        /\ searchReqs' = searchReqs \o Requested(provider, query, f)
        /\ all_results' = IF f.ok THEN all_results \o parsed ELSE all_results
        /\ log' = log \o <<announce,
                           IF f.ok THEN okPrefix \o NumStr(Len(parsed)) \o okSuffix
                           ELSE failPrefix \o f.err>>
        /\ pc' = nextpc
        /\ result' = Alias(result, log')
        /\ UNCHANGED <<disk, runs, strategy, args, exc, response, research_data, queries, raw, refined, cache, now,
                       start_time, pageFetches, genReqs, stages, calls, lastSaved>>

\* one provider call of research_niche: log the query, fetch, parse, extend
ProviderCall(provider, query, announce, okPrefix, okSuffix, failPrefix, attempts, Parse(_), nextpc) ==
    \E f \in {Fetch(attempts)} : \E parsed \in {Parse(f.links)} :
        /\ searchReqs' = searchReqs \o Requested(provider, query, f)
        /\ all_results' = IF f.ok THEN all_results \o parsed ELSE all_results
        /\ log' = log \o <<announce,
                           IF f.ok THEN okPrefix \o NumStr(Len(parsed)) \o okSuffix
                           ELSE failPrefix \o f.err>>
        /\ pc' = IF Len(all_results') < MIN_COMBINED_RESULTS THEN nextpc ELSE "finish"
        /\ result' = Alias(result, log')
        /\ UNCHANGED <<disk, runs, strategy, args, exc, response, research_data, queries, raw, refined, cache, now,
                       start_time, pageFetches, genReqs, stages, calls, lastSaved>>

\* the first provider call, followed by the second whatever it found
DdgPrimaryOn ==
    /\ pc = "ddg1"
    /\ \E attempts \in DdgPrimaryAttempts :
          ProviderCallOn("ddg", queries[1], "DDG search: '" \o queries[1] \o "'",
                         "DDG returned ", " results.", "DDG failed: DDG failed: ",
                         attempts, ParseDdg, "ddg2")

\* research_niche, lines 491-499
DdgPrimary ==
    /\ pc = "ddg1"
    /\ \E attempts \in DdgPrimaryAttempts :
          ProviderCall("ddg", queries[1], "DDG search: '" \o queries[1] \o "'",
                       "DDG returned ", " results.", "DDG failed: DDG failed: ",
                       attempts, ParseDdg, "ddg2")

\* research_niche, lines 501-510
DdgEnriched ==
    /\ pc = "ddg2"
    /\ \E attempts \in DdgEnrichedAttempts :
          ProviderCall("ddg", queries[2], "DDG enriched: '" \o queries[2] \o "'",
                       "DDG enriched: ", " results.", "DDG enriched failed: DDG failed: ",
                       attempts, ParseDdg, "bing")

\* research_niche, lines 512-522
BingFallback ==
    /\ pc = "bing"
    /\ \E attempts \in BingAttempts :
          ProviderCall("bing", queries[1], "Bing fallback...",
                       "Bing returned ", " results.", "Bing failed: Bing failed: ",
                       attempts, ParseBing, "finish")

\* a research_niche that saves whatever it retrieved, the empty list too
ResearchFinishSavingEmpty ==
    /\ pc = "finish"
    /\ IF Len(Dedup(all_results)) = 0
       THEN /\ log' = Append(log, "No results from any search engine.")
            /\ pc' = "research_ret"
            /\ research_data' = <<>>
            /\ cache' = SaveCache(cache, now, args.niche, args.platform, <<>>, "ok")
            /\ UNCHANGED <<pageFetches, genReqs, lastSaved>>
       ELSE \E case \in FinishCases :
             \E e \in {Enrich(all_results, case.pages, case.answers)}, save \in case.saves :
                   /\ log' = log \o e.log
                   /\ research_data' = IF save = "ok" \/ Swallowed(save) THEN e.items ELSE <<>>
                   /\ pc' = IF save = "ok" \/ Swallowed(save) THEN "research_ret" ELSE "research_raised"
                   /\ pageFetches' = pageFetches \o e.fetches
                   /\ genReqs' = genReqs \o [i \in 1..e.requests |-> "summary"]
                   /\ cache' = SaveCache(cache, now, args.niche, args.platform, e.items, save)
                   /\ lastSaved' = Saved(lastSaved, CachePath(args.niche, args.platform), e.items, save)
    /\ result' = Alias(result, log')
    /\ UNCHANGED <<disk, runs, strategy, args, exc, response, queries, all_results, raw, refined, now, start_time,
                   searchReqs, stages, calls>>

\* research_niche, lines 524-563: dedup, cap, score, extract, summarise, save
ResearchFinish ==
    /\ pc = "finish"
    /\ IF Len(Dedup(all_results)) = 0
       THEN /\ log' = Append(log, "No results from any search engine.")
            /\ pc' = "research_ret"
            /\ research_data' = <<>>
            /\ UNCHANGED <<cache, pageFetches, genReqs, lastSaved>>
       ELSE \E case \in FinishCases :
             \E e \in {Enrich(all_results, case.pages, case.answers)}, save \in case.saves :
                   /\ log' = log \o e.log
                   /\ research_data' = IF save = "ok" \/ Swallowed(save) THEN e.items ELSE <<>>
                   /\ pc' = IF save = "ok" \/ Swallowed(save) THEN "research_ret" ELSE "research_raised"
                   /\ pageFetches' = pageFetches \o e.fetches
                   /\ genReqs' = genReqs \o [i \in 1..e.requests |-> "summary"]
                   /\ cache' = SaveCache(cache, now, args.niche, args.platform, e.items, save)
                   /\ lastSaved' = Saved(lastSaved, CachePath(args.niche, args.platform), e.items, save)
    /\ result' = Alias(result, log')
    /\ UNCHANGED <<disk, runs, strategy, args, exc, response, queries, all_results, raw, refined, now, start_time,
                   searchReqs, stages, calls>>

-----------------------------------------------------------------------------
(* pipeline.py: run_pipeline, and its caller api/app.py: analyze           *)

KEYWORD_TOP_N == 15

OllamaDownPipeline ==
    "Ollama is not running or qwen2.5-coder:7b is not installed. "
    \o "Start Ollama with: ollama serve"

\* a test that takes only the empty string for empty
BlankEmptyOnly(val) == val = ""

Blank(val) == val = "" \/ Strip(val) = ""

\* the result dict of run_pipeline, lines 92-109
NewResult(a, l) ==
    [client_profile |-> [niche |-> a.niche, platform |-> a.platform,
                         target_audience |-> a.audience, business_goal |-> a.goal],
     pipeline_log |-> l,
     signal_strength |-> EmptyDict,
     niche_alignment |-> EmptyDict,
     keyword_analysis |-> <<>>,
     saturation_report |-> EmptyDict,
     semantic_gap_analysis |-> <<>>,
     competitive_intensity |-> <<>>,
     content_intelligence |-> "",
     content_strategy |-> EmptyDict,
     meta |-> EmptyDict]

\* an except clause that records the elapsed time only
ErrorMetaElapsedOnly(meta, msg, elapsed) == Put(meta, "elapsed_seconds", elapsed)

\* what the except clause of run_pipeline writes into result["meta"]
ErrorMeta(meta, msg, elapsed) == Put(Put(meta, "error", msg), "elapsed_seconds", elapsed)

\* run_pipeline, lines 239-243: an exception of the given type and message
\* raised in the try block when the log is l
Except(l, type, msg) ==
    /\ log' = Append(l, "ERROR: " \o msg)
    /\ result' = [result EXCEPT !.pipeline_log = log',
                                !.meta = ErrorMeta(@, msg, now - start_time)]
    /\ exc' = [type |-> type, msg |-> msg]
    /\ pc' = "raised"

\* a stage that completes: its log entries, the result it leaves, the next stage
Proceed(entries, r, stage, nextpc) ==
    /\ log' = log \o entries
    /\ result' = [r EXCEPT !.pipeline_log = log']
    /\ stages' = Append(stages, stage)
    /\ exc' = exc
    /\ pc' = nextpc

\* analyze, lines 126-144: the availability check, then the call
AnalyzeRequest ==
    /\ pc = "idle"
    /\ calls' = calls
    /\ \E req \in Requests, up \in BOOLEAN :
          /\ args' = req
          /\ IF up
             THEN /\ pc' = "validate"
                  /\ response' = response
             ELSE /\ pc' = "responded"
                  /\ response' = [success |-> FALSE, human_report |-> "", data |-> <<>>,
                                  error |-> "Ollama is not running or qwen2.5-coder:7b is not installed. "
                                            \o "Please start Ollama with: ollama serve", error_type |-> "ConnectionError",
                                  sent |-> TRUE]
    /\ UNCHANGED <<disk, runs, strategy, log, result, exc, research_data, queries, all_results, raw, refined, cache, now,
                   start_time, searchReqs, pageFetches, genReqs, stages, lastSaved>>

\* run_pipeline, lines 83-109: validation, then the result object
Validate ==
    /\ pc = "validate"
    /\ LET fields == << <<"niche", args.niche>>, <<"platform", args.platform>>,
                        <<"audience", args.audience>>, <<"goal", args.goal>> >>
           bad == {i \in DOMAIN fields : Blank(fields[i][2])}
       IN  IF bad # {}
           THEN /\ exc' = [type |-> "ValueError", msg |-> fields[SetMin(bad)][1] \o " cannot be empty."]
                /\ pc' = "raised"
                /\ UNCHANGED <<log, result, start_time>>
           ELSE /\ start_time' = now
                /\ log' = <<>>
                /\ result' = NewResult(args, log')
                /\ pc' = "check"
                /\ exc' = exc
    /\ UNCHANGED <<disk, runs, strategy, args, response, research_data, queries, all_results, raw, refined, cache, now,
                   searchReqs, pageFetches, genReqs, stages, calls, lastSaved>>

\* a Step 0 that starts the research before it looks at the backend
CheckOllamaAfterSearch ==
    /\ pc = "check"
    /\ searchReqs' = Append(searchReqs, [provider |-> "ddg", query |-> args.niche, ok |-> FALSE])
    /\ \E up \in BOOLEAN :
          IF up
          THEN Proceed(<<"Checking Ollama availability...", "Ollama running with qwen2.5-coder:7b",
                         "Step 1: Research...">>, result, "check", "research")
          ELSE /\ Except(Append(log, "Checking Ollama availability..."), "ConnectionError",
                         OllamaDownPipeline)
               /\ stages' = stages
    /\ UNCHANGED <<disk, runs, strategy, args, response, research_data, queries, all_results, raw, refined,
                   cache, now, start_time, pageFetches, genReqs, calls, lastSaved>>

\* run_pipeline, lines 111-127: Step 0, up to the call of research_niche
CheckOllama ==
    /\ pc = "check"
    /\ \E up \in BOOLEAN :
          IF up
          THEN Proceed(<<"Checking Ollama availability...", "Ollama running with qwen2.5-coder:7b",
                         "Step 1: Research...">>, result, "check", "research")
          ELSE /\ Except(Append(log, "Checking Ollama availability..."), "ConnectionError",
                         OllamaDownPipeline)
               /\ stages' = stages
    /\ UNCHANGED <<disk, runs, strategy, args, response, research_data, queries, all_results, raw, refined, cache, now,
                   start_time, searchReqs, pageFetches, genReqs, calls, lastSaved>>

\* a Step 1 that goes on whatever research_niche returned
AfterResearchUnchecked ==
    /\ pc = "research_ret"
    /\ Proceed(<<"Research complete: " \o NumStr(Len(research_data)) \o " results.">>,
               result, "research", "alignment")
    /\ UNCHANGED <<disk, runs, strategy, args, response, research_data, queries, all_results, raw, refined,
                   cache, now, start_time, searchReqs, pageFetches, genReqs, calls, lastSaved>>

\* run_pipeline, lines 127 and 239-243: research_niche has raised
ResearchRaised ==
    /\ pc = "research_raised"
    /\ Except(log, "UnicodeDecodeError", UndecodableMsg)
    /\ UNCHANGED <<disk, runs, strategy, args, response, research_data, queries, all_results, raw, refined, cache, now,
                   start_time, searchReqs, pageFetches, genReqs, stages, calls, lastSaved>>

\* run_pipeline, lines 127-132: research_niche has returned
AfterResearch ==
    /\ pc = "research_ret"
    /\ IF Len(research_data) = 0
       THEN /\ Except(log, "RuntimeError", "No research data collected. Try a different niche.")
            /\ stages' = stages
       ELSE Proceed(<<"Research complete: " \o NumStr(Len(research_data)) \o " results.">>,
                    result, "research", "alignment")
    /\ UNCHANGED <<disk, runs, strategy, args, response, research_data, queries, all_results, raw, refined, cache, now,
                   start_time, searchReqs, pageFetches, genReqs, calls, lastSaved>>

\* run_pipeline, lines 134-140: Step 2
Alignment ==
    /\ pc = "alignment"
    /\ \E alignment \in {CheckNicheAlignment(research_data, args.niche)} :
           Proceed(<<"Step 2: Niche alignment check...">>
                   \o (IF alignment.drift_detected
                       THEN <<"WARNING: " \o alignment.drift_warning>> ELSE <<>>),
                   [result EXCEPT !.niche_alignment = alignment], "alignment", "keywords")
    /\ UNCHANGED <<disk, runs, strategy, args, response, research_data, queries, all_results, raw, refined, cache, now,
                   start_time, searchReqs, pageFetches, genReqs, calls, lastSaved>>

\* run_pipeline, lines 142-147: Step 3
Keywords ==
    /\ pc = "keywords"
    /\ \E keywords \in {AnalyzeKeywordFrequency(research_data, KEYWORD_TOP_N)} :
           Proceed(<<"Step 3: Keyword analysis...",
                     "Found " \o NumStr(Len(keywords)) \o " keywords.">>,
                   [result EXCEPT !.keyword_analysis = keywords], "keywords", "signal")
    /\ UNCHANGED <<disk, runs, strategy, args, response, research_data, queries, all_results, raw, refined, cache, now,
                   start_time, searchReqs, pageFetches, genReqs, calls, lastSaved>>

\* run_pipeline, lines 149-154: Step 4
Signal ==
    /\ pc = "signal"
    /\ \E signal \in {AssessSignal(research_data)} :
           Proceed(<<"Step 4: Signal assessment...", "Confidence: " \o signal.confidence>>,
                   [result EXCEPT !.signal_strength = signal], "signal", "saturation")
    /\ UNCHANGED <<disk, runs, strategy, args, response, research_data, queries, all_results, raw, refined, cache, now,
                   start_time, searchReqs, pageFetches, genReqs, calls, lastSaved>>

\* run_pipeline, lines 156-164: Step 5
Saturation ==
    /\ pc = "saturation"
    /\ \E saturation \in {AnalyzeStructuralSaturation(research_data)} :
           Proceed(<<"Step 5: Saturation analysis...",
                     "Format: " \o saturation.dominant_format \o " | Saturated: "
                        \o (IF saturation.is_saturated THEN "True" ELSE "False")>>,
                   [result EXCEPT !.saturation_report = saturation], "saturation", "subdomains")
    /\ UNCHANGED <<disk, runs, strategy, args, response, research_data, queries, all_results, raw, refined, cache, now,
                   start_time, searchReqs, pageFetches, genReqs, calls, lastSaved>>

\* run_pipeline, lines 166-170: Step 6
Subdomains ==
    /\ pc = "subdomains"
    /\ \E answers \in SubdomainAnswers :
          \E o \in {SendPrompt(answers)} : \E g \in {GenerateDynamicSubdomains(o)} :
              /\ Proceed(<<"Step 6: Dynamic subdomain generation...", g.log>>,
                         [result EXCEPT !.meta = Put(@, "subdomains", g.subdomains)],
                         "subdomains", "gaps")
              /\ genReqs' = genReqs \o Issued("subdomains", o)
    /\ UNCHANGED <<disk, runs, strategy, args, response, research_data, queries, all_results, raw, refined, cache, now,
                   start_time, searchReqs, pageFetches, calls, lastSaved>>

GapCount(gap_results) == Cardinality({i \in DOMAIN gap_results : gap_results[i].is_gap})

\* run_pipeline, lines 172-178: Step 7 (detect_gaps)
Gaps ==
    /\ pc = "gaps"
    /\ \E gap_results \in {KeywordGaps(research_data, result.meta.subdomains)} :
           Proceed(<<"Step 7: Gap detection...",
                     "Using keyword-based gap detection (embeddings disabled).",
                     "Gaps found: " \o NumStr(GapCount(gap_results)) \o "/"
                        \o NumStr(Len(gap_results))>>,
                   [result EXCEPT !.semantic_gap_analysis = gap_results], "gaps", "competitive")
    /\ UNCHANGED <<disk, runs, strategy, args, response, research_data, queries, all_results, raw, refined, cache, now,
                   start_time, searchReqs, pageFetches, genReqs, calls, lastSaved>>

\* a batch that ends at the first probe that fails
RunChecksUntilFailure(gap_results, niche, probes) ==
    LET IsGap(g) == g.is_gap
        Check(gaps, check_n) ==
            [results |-> [i \in 1..check_n |->
                             CheckCompetitiveIntensity(gaps[i].subdomain, probes[i])],
             log |-> <<"Checking competitive intensity for " \o NumStr(check_n) \o " gaps.">>,
             requests |-> ConcatAll([i \in 1..check_n |->
                             [k \in 1..(IF probes[i].ok THEN 1 ELSE MAX_RETRIES) |->
                                 [provider |-> "bing",
                                  query |-> "\"" \o gaps[i].subdomain \o "\" " \o niche]]])]
        Over(gaps, failing) ==
            Check(gaps, Min2(Min2(MAX_COMPETITIVE_CHECKS, Len(gaps)),
                             IF failing = {} THEN MAX_COMPETITIVE_CHECKS ELSE SetMin(failing)))
    IN  Over(SelectSeq(gap_results, IsGap), {i \in DOMAIN probes : ~probes[i].ok})

\* run_competitive_checks, given one probe outcome per checked gap:
\* [results, log, queries]
RunCompetitiveChecks(gap_results, niche, probes) ==
    LET IsGap(g) == g.is_gap
        Tries(i) == IF probes[i].ok THEN 1 ELSE MAX_RETRIES
        Check(gaps, check_n) ==
            IF Len(gaps) = 0
            THEN [results |-> <<>>, log |-> <<>>, requests |-> <<>>]
            ELSE [results |-> [i \in 1..check_n |->
                                  CheckCompetitiveIntensity(gaps[i].subdomain, probes[i])],
                  log |-> <<"Checking competitive intensity for " \o NumStr(check_n) \o " gaps.">>,
                  requests |-> ConcatAll([i \in 1..check_n |->
                                  [k \in 1..Tries(i) |->
                                      [provider |-> "bing",
                                       query |-> "\"" \o gaps[i].subdomain \o "\" " \o niche]]])]
        Over(gaps) == Check(gaps, Min2(MAX_COMPETITIVE_CHECKS, Len(gaps)))
    IN  Over(SelectSeq(gap_results, IsGap))

\* run_pipeline, lines 180-184: Step 8
Competitive ==
    /\ pc = "competitive"
    /\ \E probes \in ProbeFamilies :
          \E c \in {RunCompetitiveChecks(result.semantic_gap_analysis, args.niche, probes)} :
              /\ Proceed(<<"Step 8: Competitive intensity checks...">> \o c.log,
                         [result EXCEPT !.competitive_intensity = c.results],
                         "competitive", "insights")
              /\ searchReqs' = searchReqs \o c.requests
    /\ UNCHANGED <<disk, runs, strategy, args, response, research_data, queries, all_results, raw, refined, cache, now,
                   start_time, pageFetches, genReqs, calls, lastSaved>>

\* extract_insights, given send_prompt's outcomes: what it returns or raises
ExtractInsights(o1, o2) ==
    IF Failed(o1)
    THEN [kind |-> o1.kind, msg |-> o1.msg, text |-> "",
          log |-> <<"Intelligence Call 1: Hooks, structure, CTAs">>,
          requests |-> Issued("insights1", o1)]
    ELSE IF Failed(o2)
    THEN [kind |-> o2.kind, msg |-> o2.msg, text |-> "",
          log |-> <<"Intelligence Call 1: Hooks, structure, CTAs",
                    "Intelligence Call 2: Tone, themes, positioning">>,
          requests |-> Issued("insights1", o1) \o Issued("insights2", o2)]
    ELSE [kind |-> "text", msg |-> "",
          text |-> "=== STRUCTURAL ANALYSIS ===\n\n" \o o1.text
                   \o "\n\n=== THEMATIC ANALYSIS ===\n\n" \o o2.text,
          log |-> <<"Intelligence Call 1: Hooks, structure, CTAs",
                    "Intelligence Call 2: Tone, themes, positioning">>,
          requests |-> Issued("insights1", o1) \o Issued("insights2", o2)]

\* run_pipeline, lines 186-190: Step 9
Insights ==
    /\ pc = "insights"
    /\ \E a1 \in InsightAnswers, a2 \in InsightAnswers :
          \E e \in {ExtractInsights(SendPrompt(a1), SendPrompt(a2))} :
          \E entries \in {<<"Step 9: Intelligence extraction...">> \o e.log} :
              /\ genReqs' = genReqs \o e.requests
              /\ IF e.kind = "text"
                 THEN Proceed(entries, [result EXCEPT !.content_intelligence = e.text],
                              "insights", "draft")
                 ELSE /\ Except(log \o entries, e.kind, e.msg)
                      /\ stages' = Append(stages, "insights")
    /\ UNCHANGED <<disk, runs, strategy, args, response, research_data, queries, all_results, raw, refined, cache, now,
                   start_time, searchReqs, pageFetches, calls, lastSaved>>

\* a length check that only rejects a missing draft
InsufficientOnlyMissing(text) == text = ""

\* generate_strategy, line 39: the draft is too poor to go on
Insufficient(text) == text = "" \/ Len(Strip(text)) < MIN_DRAFT_LENGTH

\* acceptance tests that take any refined text, or one of exactly half the draft
RefineAcceptedAny(text, draft) == text # ""

RefineAcceptedAtHalf(text, draft) == text # "" /\ 2 * Len(Strip(text)) >= Len(draft)

\* generate_strategy, line 49: the refined text replaces the draft
RefineAccepted(text, draft) == text # "" /\ 2 * Len(Strip(text)) > Len(draft)

\* run_pipeline, line 194, and generate_strategy, lines 32-41: pass 1
StrategyDraft ==
    /\ pc = "draft"
    /\ \E answers \in DraftAnswers :
          \E o \in {SendPrompt(answers)} :
          \E entries \in {<<"Step 10: Strategy generation (2-pass)...",
                           "Strategy Pass 1: Generating...">>} :
              /\ genReqs' = genReqs \o Issued("draft", o)
              /\ refined' = refined
              /\ IF Failed(o)
                 THEN /\ Except(log \o entries, o.kind, o.msg)
                      /\ stages' = Append(stages, "draft")
                      /\ raw' = raw
                 ELSE IF Insufficient(o.text)
                 THEN /\ Except(log \o entries, "RuntimeError",
                                "Strategy Pass 1 insufficient output.")
                      /\ stages' = Append(stages, "draft")
                      /\ raw' = o.text
                 ELSE /\ Proceed(Append(entries, "Pass 1: " \o NumStr(Len(o.text)) \o " chars."),
                                 result, "draft", "refine")
                      /\ raw' = o.text
    /\ UNCHANGED <<disk, runs, strategy, args, response, research_data, queries, all_results, cache, now,
                   start_time, searchReqs, pageFetches, calls, lastSaved>>

\* generate_strategy, lines 43-63: pass 2, the sections, the return
StrategyRefine ==
    /\ pc = "refine"
    /\ \E answers \in RefineAnswers :
          \E o \in {SendPrompt(answers)} :
          \E accepted \in {~Failed(o) /\ RefineAccepted(o.text, raw)} :
          \E final \in {IF accepted THEN o.text ELSE raw},
             entry \in {IF Failed(o) THEN "Pass 2 failed. Using Pass 1."
                        ELSE IF accepted
                        THEN "Pass 2: " \o NumStr(Len(o.text)) \o " chars (refined)."
                        ELSE "Pass 2 too short. Using Pass 1."} :
              /\ genReqs' = genReqs \o Issued("refine", o)
              /\ refined' = [kind |-> o.kind, text |-> o.text]
              /\ strategy' = Put(Put(SplitSections(final), "_raw", final), "_pass1", raw)
              /\ Proceed(<<"Strategy Pass 2: Critique and refine...", entry>>,
                         result, "refine", "assemble")
    /\ UNCHANGED <<disk, runs, args, response, research_data, queries, all_results, raw, cache, now,
                   start_time, searchReqs, pageFetches, calls, lastSaved>>

SECONDS_PER_HOUR == 3600

\* round(time.time() - start_time, 1), the clock counting hours
Elapsed == (now - start_time) * SECONDS_PER_HOUR

SNIPPET_SAMPLE_LENGTH == 200

\* run_pipeline, lines 221-228
ResearchSamples(data) ==
    [i \in 1..Len(data) |->
        [title |-> Get(data[i], "title", ""),
         snippet |-> Take(Get(data[i], "snippet", ""), SNIPPET_SAMPLE_LENGTH),
         url |-> Get(data[i], "url", ""),
         score |-> Get(data[i], "score", 0),
         has_content |-> Strip(Get(data[i], "content", "")) # "",
         has_summary |-> Strip(Get(data[i], "summary", "")) # ""]]

\* run_pipeline, lines 211-218: the meta of a completed run
CompletedMeta(meta, r, data) ==
    LET m1 == Put(meta, "elapsed_seconds", Elapsed)
        m2 == Put(m1, "research_count", Len(data))
        m3 == Put(m2, "pages_with_content", Get(r.signal_strength, "urls_with_content", 0))
        m4 == Put(m3, "pages_summarized", Get(r.signal_strength, "urls_with_summaries", 0))
        m5 == Put(m4, "gaps_found", GapCount(r.semantic_gap_analysis))
    IN  Put(m5, "total_subdomains", Len(meta.subdomains))

\* run_pipeline, lines 203-237: clean the strategy, fill meta, return
Assemble ==
    /\ pc = "assemble"
    /\ Proceed(<<"Pipeline complete in " \o NumStr(Elapsed) \o ".0s.">>,
               Put([result EXCEPT !.content_strategy = CleanStrategy(strategy),
                                  !.meta = CompletedMeta(@, result, research_data)],
                   "research_samples", ResearchSamples(research_data)),
               "assemble", "returned")
    /\ UNCHANGED <<disk, runs, strategy, args, response, research_data, queries, all_results, raw, refined, cache, now,
                   start_time, searchReqs, pageFetches, genReqs, calls, lastSaved>>

\* analyze, lines 146-209: run_pipeline has returned or raised; formatted names
\* whether generate_human_report returned
AnalyzeRespond ==
    /\ pc \in {"returned", "raised"}
    /\ pc' = "responded"
    /\ IF pc = "returned"
       THEN \E formatted \in BOOLEAN :
               response' = [success |-> TRUE,
                            human_report |-> IF formatted THEN "(human report)"
                                            ELSE "Report generation encountered an issue. \n"
                                                 \o "Please see the technical data below for "
                                                 \o "complete analysis results.",
                            data |-> result, error |-> "", error_type |-> "", sent |-> TRUE]
       ELSE response' = [success |-> FALSE, human_report |-> "", data |-> <<>>,
                         error |-> exc.msg, error_type |-> IF exc.type = "ValueError" THEN "ValidationError"
                                       ELSE exc.type, sent |-> TRUE]
    /\ UNCHANGED <<disk, runs, strategy, args, log, result, exc, research_data, queries, all_results, raw, refined,
                   cache, now, start_time, searchReqs, pageFetches, genReqs, stages, calls,
                   lastSaved>>

Next ==
    \/ AnalyzeRequest \/ Validate \/ CheckOllama
    \/ CacheCheck \/ DdgPrimary \/ DdgEnriched \/ BingFallback \/ ResearchFinish
    \/ ResearchRaised \/ AfterResearch
    \/ Alignment \/ Keywords \/ Signal \/ Saturation \/ Subdomains \/ Gaps \/ Competitive
    \/ Insights \/ StrategyDraft \/ StrategyRefine \/ Assemble \/ AnalyzeRespond

Spec == Init /\ [][Next]_vars

-----------------------------------------------------------------------------
(* research_niche called on its own, repeatedly, while the clock advances  *)

\* research_niche, lines 467-480: a call with log=None starts its own list
ResearchCall ==
    /\ pc = "idle"
    /\ calls < MaxCalls
    /\ calls' = calls + 1
    /\ pc' = "research"
    /\ log' = <<>>
    /\ research_data' = <<>>
    /\ queries' = <<>>
    /\ all_results' = <<>>
    /\ searchReqs' = <<>>
    /\ pageFetches' = <<>>
    /\ genReqs' = <<>>
    /\ UNCHANGED <<disk, runs, strategy, args, result, exc, response, raw, refined, cache, now, start_time, stages,
                   lastSaved>>

\* research_niche returns its list to the caller
ResearchReturn ==
    /\ pc = "research_ret"
    /\ pc' = "idle"
    /\ UNCHANGED <<disk, runs, strategy, args, log, result, exc, response, research_data, queries,
                   all_results, raw, refined, cache, now, start_time, searchReqs, pageFetches, genReqs,
                   stages, calls, lastSaved>>

\* time.time() between two calls: a freshness window passes, or one hour more
Tick ==
    /\ pc = "idle"
    /\ \E d \in {CACHE_MAX_AGE_HOURS, CACHE_MAX_AGE_HOURS + 1} :
          /\ now + d <= MaxClock
          /\ now' = now + d
    /\ UNCHANGED <<disk, runs, strategy, pc, args, log, result, exc, response, research_data, queries,
                   all_results, raw, refined, cache, start_time, searchReqs, pageFetches, genReqs,
                   stages, calls, lastSaved>>

\* between two calls the cache file is damaged by something else that writes
\* to the cache directory: it becomes unreadable, or holds no JSON text, bytes
\* that are no UTF-8 text, a JSON value that is no list, or the empty list
Damage ==
    /\ pc = "idle"
    /\ \E path \in DOMAIN lastSaved :
          /\ \E file \in {Damaged(now, kind) : kind \in {"unreadable", "not_json", "undecodable", "not_list"}}
                         \cup {CacheFile(now, <<>>)} :
                cache' = [cache EXCEPT ![path] = file]
          /\ lastSaved' = [p \in DOMAIN lastSaved \ {path} |-> lastSaved[p]]
    /\ UNCHANGED <<disk, runs, strategy, pc, args, log, result, exc, response, research_data, queries,
                   all_results, raw, refined, now, start_time, searchReqs, pageFetches, genReqs,
                   stages, calls>>

NextResearch ==
    \/ ResearchCall \/ CacheCheck \/ DdgPrimary \/ DdgEnriched \/ BingFallback \/ ResearchFinish
    \/ ResearchReturn \/ Tick \/ Damage

SpecResearch == Init /\ [][NextResearch]_vars

-----------------------------------------------------------------------------
(* Concurrent runs of research_niche on one key: _load_cache and _save_cache *)
(* step by step on the bytes of the cache file.  A text is a sequence of     *)
(* code points, a file a sequence of bytes.                                  *)

\* open(path, 'w', encoding='utf-8') writing a text (code points below 2048)
Utf8(text) ==
    ConcatAll([i \in 1..Len(text) |->
                  IF text[i] < 128 THEN <<text[i]>>
                  ELSE <<192 + (text[i] \div 64), 128 + (text[i] % 64)>>])

\* open(path, 'r', encoding='utf-8') reading the bytes: [ok, text]; not ok is
\* a UnicodeDecodeError
RECURSIVE Utf8Decode(_)
Utf8Decode(bytes) ==
    LET Then(cp, rest) == [ok |-> rest.ok, text |-> IF rest.ok THEN <<cp>> \o rest.text ELSE <<>>]
    IN  IF bytes = <<>> THEN [ok |-> TRUE, text |-> <<>>]
        ELSE IF bytes[1] < 128 THEN Then(bytes[1], Utf8Decode(Tail(bytes)))
        ELSE IF bytes[1] \in 194..223 /\ Len(bytes) >= 2 /\ bytes[2] \in 128..191
        THEN Then((bytes[1] - 192) * 64 + (bytes[2] - 128), Utf8Decode(Tail(Tail(bytes))))
        ELSE [ok |-> FALSE, text |-> <<>>]

\* the text of one item: { title , snippet , url , content , score , summary }
\* (the keys and the quotes, the same in every item, are left out; a score is
\* one digit)
ItemText(d) ==
    <<123>> \o d.title \o <<44>> \o d.snippet \o <<44>> \o d.url \o <<44>> \o d.content
            \o <<44, 48 + d.score, 44>> \o d.summary \o <<125>>

\* json.dump(serializable, f): the pieces it hands to f.write one by one, as
\* bytes: the opening bracket, each item with its separator, the closing bracket
JsonChunks(data) ==
    << <<91>> >>
    \o [i \in 1..Len(data) |->
           Utf8((IF i > 1 THEN <<44>> ELSE <<>>) \o ItemText(Serializable(data)[i]))]
    \o << <<93>> >>

\* str.split(sep) on a text
RECURSIVE SplitOn(_, _)
SplitOn(text, sep) ==
    LET At(k) == IF k > Len(text) THEN <<text>>
                 ELSE <<SubSeq(text, 1, k - 1)>> \o SplitOn(SubSeq(text, k + 1, Len(text)), sep)
    IN  At(FirstWhere(LAMBDA c : c = <<sep>>, text, 1))

\* json.load on the text of one item: [ok, item]
ParseItem(text) ==
    LET Fields(f) ==
            IF /\ Len(f) = 6
               /\ Len(f[5]) = 1 /\ f[5][1] \in 48..57
               /\ \A k \in 1..6 : \A j \in 1..Len(f[k]) : f[k][j] \notin {0, 91, 93, 123, 125}
            THEN [ok |-> TRUE,
                  item |-> [title |-> f[1], snippet |-> f[2], url |-> f[3], content |-> f[4],
                            score |-> f[5][1] - 48, summary |-> f[6]]]
            ELSE [ok |-> FALSE, item |-> <<>>]
    IN  IF Len(text) >= 2 /\ text[1] = 123 /\ text[Len(text)] = 125
        THEN Fields(SplitOn(SubSeq(text, 2, Len(text) - 1), 44))
        ELSE [ok |-> FALSE, item |-> <<>>]

\* json.load on the text between the brackets of a list: [ok, items]
RECURSIVE ParseItems(_)
ParseItems(text) ==
    LET Rest(first, rest) ==
            IF ~first.ok THEN [ok |-> FALSE, items |-> <<>>]
            ELSE IF rest = <<>> THEN [ok |-> TRUE, items |-> <<first.item>>]
            ELSE IF rest[1] = 44
            THEN (LET More(m) == [ok |-> m.ok, items |-> IF m.ok THEN <<first.item>> \o m.items ELSE <<>>]
                  IN  More(ParseItems(Tail(rest))))
            ELSE [ok |-> FALSE, items |-> <<>>]
        Close(k) == IF k > Len(text) THEN [ok |-> FALSE, items |-> <<>>]
                    ELSE Rest(ParseItem(SubSeq(text, 1, k)), SubSeq(text, k + 1, Len(text)))
    IN  Close(FirstWhere(LAMBDA c : c = <<125>>, text, 1))

\* what open and json.load make of the file: a CacheFile or a Damaged one
FileOf(d) ==
    LET Load(text) ==
            IF Len(text) >= 2 /\ text[1] = 91 /\ text[Len(text)] = 93
            THEN (LET List(r) == IF r.ok THEN CacheFile(d.mtime, r.items)
                                 ELSE Damaged(d.mtime, "not_json")
                  IN  IF Len(text) = 2 THEN CacheFile(d.mtime, <<>>)
                      ELSE List(ParseItems(SubSeq(text, 2, Len(text) - 1))))
            ELSE IF ParseItem(text).ok THEN Damaged(d.mtime, "not_list")
            ELSE Damaged(d.mtime, "not_json")
        Read(dec) == IF dec.ok THEN Load(dec.text) ELSE Damaged(d.mtime, "undecodable")
    IN  Read(Utf8Decode(d.bytes))

\* the cache directory as _load_cache meets it
Directory(d) ==
    IF d.exists THEN [p \in {CachePath(args.niche, args.platform)} |-> FileOf(d)]
    ELSE [p \in {} |-> FileOf(d)]

\* write(fd, new) at the descriptor's own offset off (no O_APPEND): the bytes
\* under the write are replaced, the rest of the file stays; bytes before an
\* offset beyond the end of the file read as 0
PWrite(bytes, off, new) ==
    [i \in 1..(IF Len(bytes) > off + Len(new) THEN Len(bytes) ELSE off + Len(new)) |->
        IF i > off /\ i <= off + Len(new) THEN new[i - off]
        ELSE IF i <= Len(bytes) THEN bytes[i] ELSE 0]

\* sample items
CacheItem(title, url, summary) ==
    [title |-> title, snippet |-> <<>>, url |-> url, content |-> <<>>, score |-> 3, summary |-> summary]

\* the lists the two runs retrieved.  The first ends in a two-byte character;
\* the second has a text of the same length, or a text that ends where that
\* character begins
RunLists ==
    { << <<CacheItem(<<97>>, <<117>>, <<233>>)>>, data2 >> :
         data2 \in { <<CacheItem(<<99>>, <<119>>, <<120, 121>>)>>,
                     <<CacheItem(<<99>>, <<>>, <<>>)>> } }

\* the list an earlier run saved
OldList == <<CacheItem(<<111, 108, 100>>, <<117>>, <<>>), CacheItem(<<111>>, <<118>>, <<>>)>>

\* the file before the runs: none, or an earlier run's entry, expired or fresh
InitDisks ==
    {NoFile} \cup {[exists |-> TRUE, mtime |-> m, bytes |-> ConcatAll(JsonChunks(OldList))] : m \in {0, 1}}

InitCache ==
    /\ pc = "idle"
    /\ args = ValidRequest
    /\ log = <<>>
    /\ result = NoResult
    /\ exc = NoExc
    /\ response = NoResponse
    /\ research_data = <<>>
    /\ queries = <<>>
    /\ all_results = <<>>
    /\ raw = ""
    /\ refined = NoRefine
    /\ strategy = EmptyDict
    /\ cache = [p \in {} |-> 0]
    /\ now = CACHE_MAX_AGE_HOURS + 1
    /\ start_time = 0
    /\ searchReqs = <<>>
    /\ pageFetches = <<>>
    /\ genReqs = <<>>
    /\ stages = <<>>
    /\ calls = 0
    /\ lastSaved = [p \in {} |-> 0]
    /\ disk \in InitDisks
    /\ \E lists \in RunLists :
          runs = [r \in 1..2 |-> [pc |-> "load", data |-> lists[r], done |-> 0, got |-> <<>>,
                                  saw |-> NoFile]]

\* the variables of the single call, which the concurrent runs leave alone
callVars == <<pc, args, log, result, exc, response, research_data, queries,
              all_results, raw, refined, strategy, cache, now, start_time, searchReqs,
              pageFetches, genReqs, stages, calls, lastSaved>>

\* research_niche, lines 482-488, of one run: _load_cache, then return the
\* cached list or go on to the retrieval (which ends in _save_cache)
RunLoad ==
    \E r \in DOMAIN runs :
        /\ runs[r].pc = "load"
        /\ \E dir \in {Directory(disk)} :
              IF LoadCacheRaises(dir, now, args.niche, args.platform)
              THEN runs' = [runs EXCEPT ![r].pc = "raised", ![r].saw = disk]
              ELSE \E cached \in {LoadCache(dir, now, args.niche, args.platform)} :
                      runs' = [runs EXCEPT ![r].got = cached, ![r].saw = disk,
                                           ![r].pc = IF Len(cached) > 0 THEN "returned" ELSE "open"]
        /\ UNCHANGED <<callVars, disk>>

\* _save_cache, line 137: open(path, 'w') creates the file or cuts it to nothing
RunOpen ==
    \E r \in DOMAIN runs :
        /\ runs[r].pc = "open"
        /\ disk' = [exists |-> TRUE, mtime |-> now, bytes |-> <<>>]
        /\ runs' = [runs EXCEPT ![r].pc = "write"]
        /\ UNCHANGED callVars

\* _save_cache, line 138: json.dump through the file object.  The bytes reach
\* the file at the run's own offset in one write or in several, and another
\* process can meet the file after any of its bytes; after the last byte the
\* file is closed and research_niche returns
RunWrite ==
    \E r \in DOMAIN runs :
        /\ runs[r].pc = "write"
        /\ \E text \in {ConcatAll(JsonChunks(runs[r].data))} :
            \E n \in 1..(Len(text) - runs[r].done) :
              /\ disk' = [disk EXCEPT !.mtime = now,
                                      !.bytes = PWrite(@, runs[r].done,
                                                       SubSeq(text, runs[r].done + 1, runs[r].done + n))]
              /\ runs' = [runs EXCEPT ![r].done = @ + n,
                                      ![r].pc = IF runs[r].done + n = Len(text)
                                                THEN "returned" ELSE "write"]
        /\ UNCHANGED callVars

NextCache == RunLoad \/ RunOpen \/ RunWrite

SpecCache == InitCache /\ [][NextCache]_vars

-----------------------------------------------------------------------------
(* _split_sections on its own: strategy texts with any of the six headers   *)

\* the headers as the prompt spells them
NumberedHeaders ==
    << "## 1. STRATEGIC POSITIONING STATEMENT", "## 2. CONTENT PILLARS",
       "## 3. OPTIMIZED HOOKS", "## 4. SHORT-FORM CONTENT SCRIPTS",
       "## 5. CTA VARIATIONS", "## 6. 7-DAY CONTENT CALENDAR" >>

\* the headers as a model may write them: no number, mixed case, a colon or dash
BareHeaders ==
    << "Strategic Positioning:", "content pillars -", "Optimized hooks",
       "Short-Form Content Scripts", "cta variations:", "7-day Content Calendar -" >>

\* "".join(parts)
RECURSIVE JoinText(_)
JoinText(parts) == IF Len(parts) = 0 THEN "" ELSE parts[1] \o JoinText(Tail(parts))

\* a strategy text holding the headers `present`, in the prompt's order or
\* in the reverse order, each followed by a line of body
StrategyText(headers, present, reversed) ==
    JoinText([i \in 1..Len(headers) |->
        LET Part(k) == IF k \in present
                       THEN headers[k] \o "\nplan " \o SECTION_PATTERNS[k].num \o ".\n"
                       ELSE ""
        IN  Part(IF reversed THEN Len(headers) + 1 - i ELSE i)])

StrategyTexts ==
    {StrategyText(NumberedHeaders, present, FALSE) : present \in SUBSET DOMAIN SECTION_PATTERNS}
    \cup {"Here is the plan.\n" \o StrategyText(BareHeaders, present, reversed) :
             present \in SUBSET DOMAIN SECTION_PATTERNS, reversed \in BOOLEAN}

InitSections ==
    /\ pc = "split"
    /\ args = ValidRequest
    /\ log = <<>>
    /\ result = NoResult
    /\ exc = NoExc
    /\ response = NoResponse
    /\ research_data = <<>>
    /\ queries = <<>>
    /\ all_results = <<>>
    /\ raw \in StrategyTexts
    /\ refined = NoRefine
    /\ strategy = EmptyDict
    /\ cache = [p \in {} |-> 0]
    /\ now = CACHE_MAX_AGE_HOURS + 1
    /\ start_time = 0
    /\ searchReqs = <<>>
    /\ pageFetches = <<>>
    /\ genReqs = <<>>
    /\ stages = <<>>
    /\ calls = 0
    /\ lastSaved = [p \in {} |-> 0]
    /\ disk = NoFile
    /\ runs = <<>>

\* generate_strategy, line 58: sections = _split_sections(final)
SplitCall ==
    /\ pc = "split"
    /\ pc' = "split_ret"
    /\ strategy' = SplitSections(raw)
    /\ UNCHANGED <<args, log, result, exc, response, research_data, queries, all_results,
                   raw, refined, cache, now, start_time, searchReqs, pageFetches, genReqs,
                   stages, calls, lastSaved, disk, runs>>

NextSections == SplitCall

SpecSections == InitSections /\ [][NextSections]_vars

-----------------------------------------------------------------------------
(* detect_gaps on its own: subdomains with short words, corpora that grow   *)

MaxPages == 3

\* one retrieved page, as research_niche returns it
Page(title, content, summary) ==
    [title |-> title, snippet |-> "", url |-> "https://a.com/" \o title,
     content |-> content, score |-> 0, summary |-> summary]

\* subdomain lists: phrases with words of one and two letters, a phrase made
\* of short words only, a word ("ops") that is part of another one ("loops")
GapSubdomainLists ==
    { <<"go to market fit", "pricing pages", "ai in hr ops", "Founder Hiring loops plan">>,
      <<"to be", "tools and resources", "an ai market">> }

\* what a page can add to the corpus
GapPages ==
    { Page("Market", "", ""), Page("", "growth LOOPS", ""), Page("", "", "hiring"),
      Page("founder", "", "plan"), Page("", "pricing pages", ""), Page("", "ops", "fit"),
      Page("", "tools", "") }

GapCorpora == { <<>>, <<Page("Pricing that converts", "", "")>>, <<Page("", "", "Hiring a founder")>> }

InitGaps ==
    /\ pc = "gaps"
    /\ args = ValidRequest
    /\ log = <<>>
    /\ \E subdomains \in GapSubdomainLists :
          result = [NewResult(ValidRequest, <<>>) EXCEPT !.meta = [subdomains |-> subdomains]]
    /\ exc = NoExc
    /\ response = NoResponse
    /\ research_data \in GapCorpora
    /\ queries = <<>>
    /\ all_results = <<>>
    /\ raw = ""
    /\ refined = NoRefine
    /\ strategy = EmptyDict
    /\ cache = [p \in {} |-> 0]
    /\ now = CACHE_MAX_AGE_HOURS + 1
    /\ start_time = 0
    /\ searchReqs = <<>>
    /\ pageFetches = <<>>
    /\ genReqs = <<>>
    /\ stages = <<>>
    /\ calls = 0
    /\ lastSaved = [p \in {} |-> 0]
    /\ disk = NoFile
    /\ runs = <<>>

gapVars == <<args, log, exc, response, queries, all_results, raw, refined, strategy, cache,
             now, start_time, searchReqs, pageFetches, genReqs, stages, calls, lastSaved,
             disk, runs>>

\* run_pipeline, lines 175-176: gap_results = detect_gaps(research_data, subdomains)
DetectGaps ==
    /\ pc = "gaps"
    /\ pc' = "gaps_ret"
    /\ result' = [result EXCEPT
                     !.semantic_gap_analysis = KeywordGaps(research_data, result.meta.subdomains)]
    /\ UNCHANGED <<research_data, gapVars>>

\* the same subdomains against a corpus one page larger
DetectGapsAgain ==
    /\ pc = "gaps_ret"
    /\ Len(research_data) < MaxPages
    /\ \E page \in GapPages :
          /\ research_data' = Append(research_data, page)
          /\ result' = [result EXCEPT
                           !.semantic_gap_analysis =
                               KeywordGaps(research_data', result.meta.subdomains)]
    /\ UNCHANGED <<pc, gapVars>>

NextGaps == DetectGaps \/ DetectGapsAgain

SpecGaps == InitGaps /\ [][NextGaps]_vars

-----------------------------------------------------------------------------
(* generate_dynamic_subdomains on its own: lists of every length           *)

MaxListed == 17

\* the phrases the backend lists, all different and none part of another
ListedLetters == "abcdefghijklmnopqrstuvwxyz"

Listed(i) == "growth loop " \o Char(ListedLetters, i)

\* a backend text of n valid phrases: one per line, numbered with a closing
\* dot, or bulleted and followed by lines that are no phrases (one word, a
\* blank line, nine words)
ListText(n, style) ==
    JoinText([i \in 1..n |->
        IF style = "plain" THEN Listed(i) \o "\n"
        ELSE IF style = "numbered" THEN NumStr(i) \o ". " \o Listed(i) \o ".\n"
        ELSE "- " \o Listed(i) \o "\n"])
    \o (IF style = "bulleted" THEN "nope\n\n* a b c d e f g h i\n" ELSE "")

ListAnswers ==
    {Says(ListText(n, style)) : n \in 0..MaxListed, style \in {"plain", "numbered", "bulleted"}}
    \cup { Unreachable, HttpError,
           <<Ans("req_error", "read timed out"), Ans("ok", "")>>,
           <<Ans("bad_json", ""), Ans("ok", "")>>,
           <<Ans("http_overflow", "context too long"), Ans("http_overflow", "context too long")>>,
           <<Ans("json_overflow", "token limit"), Ans("json_error", "model not loaded")>>,
           OverflowThen(ListText(6, "numbered")) }

InitSubdomains ==
    /\ pc = "subdomains"
    /\ args = ValidRequest
    /\ log = <<>>
    /\ result = [NewResult(ValidRequest, <<>>) EXCEPT !.meta = EmptyDict]
    /\ exc = NoExc
    /\ response = NoResponse
    /\ research_data = <<>>
    /\ queries = <<>>
    /\ all_results = <<>>
    /\ raw = ""
    /\ refined = NoRefine
    /\ strategy = EmptyDict
    /\ cache = [p \in {} |-> 0]
    /\ now = CACHE_MAX_AGE_HOURS + 1
    /\ start_time = 0
    /\ searchReqs = <<>>
    /\ pageFetches = <<>>
    /\ genReqs = <<>>
    /\ stages = <<>>
    /\ calls = 0
    /\ lastSaved = [p \in {} |-> 0]
    /\ disk = NoFile
    /\ runs = <<>>

listVars == <<args, response, research_data, queries, all_results, refined, strategy, cache,
              now, start_time, searchReqs, pageFetches, calls, lastSaved, disk, runs>>

\* send_prompt_for_list, line 170: raw = send_prompt(prompt), which returns
\* the text or raises
SendPromptForList ==
    /\ pc = "subdomains"
    /\ \E answers \in ListAnswers :
          \E o \in {SendPrompt(answers)} :
              /\ genReqs' = genReqs \o Issued("subdomains", o)
              /\ raw' = o.text
              /\ exc' = IF Failed(o) THEN [type |-> o.kind, msg |-> o.msg] ELSE NoExc
              /\ pc' = IF Failed(o) THEN "list_raised" ELSE "list_ret"
    /\ UNCHANGED <<log, result, stages, listVars>>

\* generate_dynamic_subdomains, lines 48-61: the cleaning and the fallback,
\* or the except clause; run_pipeline, line 171, stores the list
SubdomainsReturn ==
    /\ pc \in {"list_ret", "list_raised"}
    /\ \E o \in {IF pc = "list_ret" THEN Returned(raw, Len(genReqs))
                  ELSE Raised(exc.type, exc.msg, Len(genReqs))} :
          \E g \in {GenerateDynamicSubdomains(o)} :
              /\ log' = Append(log, g.log)
              /\ result' = [result EXCEPT !.meta = Put(@, "subdomains", g.subdomains)]
    /\ exc' = NoExc
    /\ stages' = Append(stages, "subdomains")
    /\ pc' = "subdomains_ret"
    /\ UNCHANGED <<raw, genReqs, listVars>>

NextSubdomains == SendPromptForList \/ SubdomainsReturn

SpecSubdomains == InitSubdomains /\ [][NextSubdomains]_vars

-----------------------------------------------------------------------------
(* run_competitive_checks on its own: gap lists of every length, probes    *)
(* that fail, probes with and without a result count                       *)

MaxGaps == 7

\* a gap analysis as _keyword_gaps sorts it: n gaps, then m covered subdomains
GapList(n, m) ==
    [i \in 1..(n + m) |->
        [subdomain |-> (IF i <= n THEN "gap " ELSE "covered ") \o Char(ListedLetters, i),
         similarity |-> IF i <= n THEN 0 ELSE 1000, is_gap |-> i <= n, method |-> "keyword"]]

ProbeGapLists == {GapList(n, m) : n \in 0..MaxGaps, m \in {0, 2}}

\* Bing pages: nothing kept; two results; four results of two domains; six
\* results whose first five are of four domains; six results whose first
\* five are of three domains and the sixth of a fourth
ProbePages ==
    { <<Link("More", "https://www.bing.com/search?q=x", "")>>,
      <<Link("A", "https://a.com/1", ""), Link("B", "http://b.com/1", ""),
        Link("Ad", "/aclk?x", "")>>,
      <<Link("A", "https://www.a.com/1", ""), Link("A2", "https://A.com/2", ""),
        Link("A3", "https://a.com", ""), Link("B", "https://b.com/1", "")>>,
      <<Link("A", "https://a.com/1", ""), Link("B", "https://b.com/1", ""),
        Link("C", "https://c.com/1", ""), Link("D", "https://d.com/1", ""),
        Link("A2", "https://a.com/2", ""), Link("E", "https://e.com/1", "")>>,
      <<Link("A", "https://a.com/1", ""), Link("B", "https://b.com/1", ""),
        Link("C", "https://c.com/1", ""), Link("B2", "https://b.com/2", ""),
        Link("A2", "https://a.com/2", ""), Link("E", "https://e.com/1", "")>> }

\* _estimate_bing_count: -1 without a count, else the number read
ProbeCounts == {-1, 0, 9999, 10000, 99999, 100000}

ProbeFailed == [ok |-> FALSE, count |-> -1, links |-> <<>>]

ProbeOutcomes ==
    {ProbeFailed} \cup {[ok |-> TRUE, count |-> c, links |-> l] : c \in ProbeCounts, l \in ProbePages}

\* the outcomes of the five probes: any outcome for the first, failure or a
\* crowded page for each of the others
ProbeScripts ==
    {[i \in 1..MAX_COMPETITIVE_CHECKS |-> IF i = 1 THEN first ELSE IF i \in failing
                                          THEN ProbeFailed
                                          ELSE [ok |-> TRUE, count |-> 100000, links |-> <<>>]] :
        first \in ProbeOutcomes, failing \in SUBSET (2..MAX_COMPETITIVE_CHECKS)}

InitProbes ==
    /\ pc = "competitive"
    /\ args = ValidRequest
    /\ log = <<>>
    /\ \E gaps \in ProbeGapLists :
          result = [NewResult(ValidRequest, <<>>) EXCEPT !.semantic_gap_analysis = gaps]
    /\ exc = NoExc
    /\ response = NoResponse
    /\ research_data = <<>>
    /\ queries = <<>>
    /\ all_results = <<>>
    /\ raw = ""
    /\ refined = NoRefine
    /\ strategy = EmptyDict
    /\ cache = [p \in {} |-> 0]
    /\ now = CACHE_MAX_AGE_HOURS + 1
    /\ start_time = 0
    /\ searchReqs = <<>>
    /\ pageFetches = <<>>
    /\ genReqs = <<>>
    /\ stages = <<>>
    /\ calls = 0
    /\ lastSaved = [p \in {} |-> 0]
    /\ disk = NoFile
    /\ runs = <<>>

\* run_pipeline, lines 183-184: competitive = run_competitive_checks(...);
\* all_results keeps, for each probe made, what _parse_bing returned for it
CompetitiveCall ==
    /\ pc = "competitive"
    /\ pc' = "competitive_ret"
    /\ \E probes \in ProbeScripts :
          \E c \in {RunCompetitiveChecks(result.semantic_gap_analysis, args.niche, probes)} :
              /\ result' = [result EXCEPT !.competitive_intensity = c.results]
              /\ log' = log \o c.log
              /\ searchReqs' = searchReqs \o c.requests
              /\ all_results' = [i \in 1..Len(c.results) |->
                                    IF probes[i].ok THEN ParseBing(probes[i].links) ELSE <<>>]
    /\ stages' = Append(stages, "competitive")
    /\ UNCHANGED <<args, exc, response, research_data, queries, raw, refined, strategy, cache,
                   now, start_time, pageFetches, genReqs, calls, lastSaved, disk, runs>>

NextProbes == CompetitiveCall

SpecProbes == InitProbes /\ [][NextProbes]_vars

-----------------------------------------------------------------------------
(* analyze_structural_saturation on its own: lists of pages of every mix   *)

MaxSamples == 4

\* one page of the research data
Sample(title, snippet, content, summary) ==
    [title |-> title, snippet |-> snippet, url |-> "https://a.com/p", content |-> content,
     score |-> 0, summary |-> summary]

\* pages whose title or snippet is a list, a guide, a comparison, all three
\* or none of them ("blacklist" holds "list", not the word), and whose text,
\* the summary before the content, is missing, a numbered list or prose
SaturationSamples ==
    { Sample("7 habits", "", "", ""),
      Sample("Founder guide", "step-by-step", "", ""),
      Sample("Notion vs. Obsidian", "", "", ""),
      Sample("Plain diary", "", "1. wake up\n2. write", ""),
      Sample("Plain notes", "", "prose", "Here are 3 ideas"),
      Sample("Blacklist topics", "", "Step 1 first", "no steps"),
      Sample("Best guide versus the rest", "", "", "") }

InitSaturation ==
    /\ pc = "saturation"
    /\ args = ValidRequest
    /\ log = <<>>
    /\ result = NewResult(ValidRequest, <<>>)
    /\ exc = NoExc
    /\ response = NoResponse
    /\ \E n \in 0..MaxSamples : research_data \in [1..n -> SaturationSamples]
    /\ queries = <<>>
    /\ all_results = <<>>
    /\ raw = ""
    /\ refined = NoRefine
    /\ strategy = EmptyDict
    /\ cache = [p \in {} |-> 0]
    /\ now = CACHE_MAX_AGE_HOURS + 1
    /\ start_time = 0
    /\ searchReqs = <<>>
    /\ pageFetches = <<>>
    /\ genReqs = <<>>
    /\ stages = <<>>
    /\ calls = 0
    /\ lastSaved = [p \in {} |-> 0]
    /\ disk = NoFile
    /\ runs = <<>>

\* run_pipeline, lines 159-160: saturation = analyze_structural_saturation(...)
SaturationCall ==
    /\ pc = "saturation"
    /\ pc' = "saturation_ret"
    /\ result' = [result EXCEPT !.saturation_report = AnalyzeStructuralSaturation(research_data)]
    /\ UNCHANGED <<args, log, exc, response, research_data, queries, all_results, raw, refined,
                   strategy, cache, now, start_time, searchReqs, pageFetches, genReqs, stages,
                   calls, lastSaved, disk, runs>>

NextSaturation == SaturationCall

SpecSaturation == InitSaturation /\ [][NextSaturation]_vars

-----------------------------------------------------------------------------
(* extract_page_content on its own: pages of every length around the two   *)
(* limits, with the last full stop at every place around the half          *)

\* lengths of cleaned text, and the places of its one full stop (0: none)
CleanedLengths == {0, 1, 299, 300, 301, 600, 601, 1199, 1200, 1201, 1500}
StopPlaces == {0, 1, 300, 600, 601, 602, 1199, 1200, 1201, 1500}

\* n characters with a full stop at place k
CleanedText(n, k) ==
    IF k = 0 THEN Rep("a", n) ELSE Rep("a", k - 1) \o "." \o Rep("a", n - k)

\* what the request and the parse came to: ok is FALSE when either raised,
\* html is whether the Content-Type is HTML, cleaned is what _clean_text gave
FetchedPages ==
    { [ok |-> ok, html |-> html, cleaned |-> CleanedText(n, k)] :
        <<ok, html, n, k>> \in { q \in BOOLEAN \X BOOLEAN \X CleanedLengths \X StopPlaces :
                                    q[4] <= q[3] } }

InitExtract ==
    /\ pc = "extract"
    /\ args = ValidRequest
    /\ log = <<>>
    /\ result = NewResult(ValidRequest, <<>>)
    /\ exc = NoExc
    /\ response \in FetchedPages
    /\ research_data = << Sample("7 habits", "", "", "") >>
    /\ queries = <<>>
    /\ all_results = <<>>
    /\ raw = ""
    /\ refined = NoRefine
    /\ strategy = EmptyDict
    /\ cache = [p \in {} |-> 0]
    /\ now = CACHE_MAX_AGE_HOURS + 1
    /\ start_time = 0
    /\ searchReqs = <<>>
    /\ pageFetches = <<>>
    /\ genReqs = <<>>
    /\ stages = <<>>
    /\ calls = 0
    /\ lastSaved = [p \in {} |-> 0]
    /\ disk = NoFile
    /\ runs = <<>>

\* research_niche, lines 543-545: content = extract_page_content(url), kept
\* in the item when it is not empty
ExtractCall ==
    /\ pc = "extract"
    /\ pc' = "extract_ret"
    /\ research_data' = [research_data EXCEPT ![1].content = ExtractPageContent(response)]
    /\ pageFetches' = << research_data[1].url >>
    /\ UNCHANGED <<args, log, result, exc, response, queries, all_results, raw, refined,
                   strategy, cache, now, start_time, searchReqs, genReqs, stages, calls,
                   lastSaved, disk, runs>>

NextExtract == ExtractCall

SpecExtract == InitExtract /\ [][NextExtract]_vars

-----------------------------------------------------------------------------
(* send_prompt on its own, one request at a time                           *)

\* str.find and str.rfind, 0-based, -1 when w is not in s
StrFind(s, w) ==
    LET At(at) == IF at = {} THEN -1 ELSE SetMin(at) - 1
    IN  At({i \in 1..(Len(s) - Len(w) + 1) : SubSeq(s, i, i + Len(w) - 1) = w})

StrRFind(s, w) ==
    LET At(at) == IF at = {} THEN -1 ELSE (CHOOSE i \in at : \A k \in at : k <= i) - 1
    IN  At({i \in 1..(Len(s) - Len(w) + 1) : SubSeq(s, i, i + Len(w) - 1) = w})

\* s[a:b] for 0 <= a, b <= len(s)
Slice(s, a, b) == IF b <= a THEN "" ELSE SubSeq(s, a + 1, b)

\* the first marker of the list that the finder finds, or the default
RECURSIVE FirstMarker(_, _, _, _)
FirstMarker(Finder(_, _), prompt, markers, default) ==
    IF markers = <<>> THEN default
    ELSE IF Finder(prompt, Head(markers)) # -1 THEN Finder(prompt, Head(markers))
    ELSE FirstMarker(Finder, prompt, Tail(markers), default)

\* _trim_prompt
TrimPrompt(prompt, target_length) ==
    IF Len(prompt) <= target_length THEN prompt
    ELSE LET Cut(content_start, content_end) ==
                 LET header == Slice(prompt, 0, content_start)
                     footer == Slice(prompt, content_end, Len(prompt))
                     content == Slice(prompt, content_start, content_end)
                     available == target_length - Len(header) - Len(footer) - 50
                 IN  IF available > 0 /\ Len(content) > available
                     THEN header \o Slice(content, 0, available) \o "\n[... trimmed ...]\n"
                          \o footer
                     ELSE header \o content \o footer
         IN  Cut(FirstMarker(StrFind, prompt,
                             << "=== RESEARCH", "--- Sample", "INTELLIGENCE:", "SAMPLES:" >>,
                             Len(prompt) \div 4),
                 FirstMarker(StrRFind, prompt,
                             << "=== END", "Based STRICTLY", "Analyze ONLY", "GENERATE:" >>,
                             (Len(prompt) * 3) \div 4))

\* the lengths below 650 for which the double len * 0.7 falls just short of
\* the whole number 7 * len / 10
FloatShort == {90, 170, 180, 330, 340, 350, 360}

\* int(len(current_prompt) * 0.7), for prompts shorter than 650 characters
TrimTarget(len) == ((7 * len) \div 10) - (IF len \in FloatShort THEN 1 ELSE 0)

\* prompts: empty; short; long without markers; long between two markers;
\* the end marker before the start marker; short between two markers
Prompts ==
    { "",
      Rep("x", 40),
      Rep("x ", 170),
      "Rules.\nSAMPLES:\n" \o Rep("post ", 80) \o "GENERATE: five",
      "GENERATE: ideas\nSAMPLES: none",
      "Q\n=== RESEARCH\nabc\n=== END\nBased STRICTLY on it" }

\* the answers of the backend to one request: those of Ans, and two bodies
\* of status 200 that are JSON but hold no text:
\*   ok_null    {"response": null}
\*   json_list  []
PromptAnswers ==
    { Ans("unreachable", ""), Ans("req_error", "read timed out"),
      Ans("http_overflow", "prompt too long"), Ans("http_error", "model crashed"),
      Ans("bad_json", ""), Ans("json_overflow", "context window exceeded"),
      Ans("json_error", "model not found"), Ans("ok", "  a plan \n"),
      Ans("ok_null", ""), Ans("json_list", "") }

InitPrompt ==
    /\ pc = "post"
    /\ args = ValidRequest
    /\ log = <<>>
    /\ result = NewResult(ValidRequest, <<>>)
    /\ exc = NoExc
    /\ response = NoResponse
    /\ research_data = <<>>
    /\ \E prompt \in Prompts : queries = <<prompt>> /\ raw = prompt
    /\ all_results = <<>>
    /\ refined = NoRefine
    /\ strategy = EmptyDict
    /\ cache = [p \in {} |-> 0]
    /\ now = CACHE_MAX_AGE_HOURS + 1
    /\ start_time = 0
    /\ searchReqs = <<>>
    /\ pageFetches = <<>>
    /\ genReqs = <<>>
    /\ stages = <<>>
    /\ calls = 0
    /\ lastSaved = [p \in {} |-> 0]
    /\ disk = NoFile
    /\ runs = <<>>

\* one turn of the loop of send_prompt: raw is current_prompt, calls is
\* attempts, genReqs the prompts posted, all_results the answers received,
\* refined the text returned
PostPrompt ==
    /\ pc = "post"
    /\ calls <= 1
    /\ \E a \in PromptAnswers :
         LET Raise(type, msg) ==
                 /\ pc' = "prompt_raised"
                 /\ exc' = [type |-> type, msg |-> msg]
                 /\ UNCHANGED <<raw, calls, refined>>
             Retry ==
                 /\ pc' = "post"
                 /\ raw' = TrimPrompt(raw, TrimTarget(Len(raw)))
                 /\ calls' = calls + 1
                 /\ UNCHANGED <<exc, refined>>
         IN  /\ genReqs' = Append(genReqs, raw)
             /\ all_results' = Append(all_results, a)
             /\ CASE a.kind = "unreachable" ->
                       Raise("ConnectionError", "Ollama not running. Start with: ollama serve")
                  [] a.kind = "req_error" ->
                       Raise("RuntimeError", "Ollama request failed: " \o a.text)
                  [] a.kind = "http_overflow" ->
                       IF calls < 1 THEN Retry
                       ELSE Raise("RuntimeError", "Context limit exceeded after trimming.")
                  [] a.kind = "http_error" ->
                       Raise("RuntimeError", "Ollama error 500: " \o a.text)
                  [] a.kind = "bad_json" ->
                       Raise("RuntimeError", "Invalid JSON from Ollama.")
                  [] a.kind = "json_overflow" ->
                       IF calls < 1 THEN Retry
                       ELSE Raise("RuntimeError", "Unexpected response. Error: " \o a.text)
                  [] a.kind = "json_error" ->
                       Raise("RuntimeError", "Unexpected response. Error: " \o a.text)
                  [] a.kind = "ok_null" ->
                       Raise("AttributeError", "'NoneType' object has no attribute 'strip'")
                  [] a.kind = "json_list" ->
                       Raise("AttributeError", "'list' object has no attribute 'get'")
                  [] OTHER ->
                       /\ pc' = "prompt_ret"
                       /\ refined' = [kind |-> "text", text |-> Strip(a.text)]
                       /\ UNCHANGED <<raw, calls, exc>>
    /\ UNCHANGED <<args, log, result, response, research_data, queries, strategy, cache, now,
                   start_time, searchReqs, pageFetches, stages, lastSaved, disk, runs>>

NextPrompt == PostPrompt

SpecPrompt == InitPrompt /\ [][NextPrompt]_vars

-----------------------------------------------------------------------------
(* compute_heuristic_score on its own, called twice on the same result     *)

\* the loop over POWER_WORDS that stops at the first word found
RECURSIVE ScoreFirstWord(_, _, _)
ScoreFirstWord(order, combined, score) ==
    IF order = <<>> THEN score
    ELSE IF Contains(combined, Head(order)) THEN score + Len(order)
    ELSE ScoreFirstWord(Tail(order), combined, score)

\* "for w in POWER_WORDS: if w in combined: score += 1", the set iterated in
\* the given order
RECURSIVE ScoreLoop(_, _, _)
ScoreLoop(order, combined, score) ==
    IF order = <<>> THEN score
    ELSE ScoreLoop(Tail(order), combined,
                   IF Contains(combined, Head(order)) THEN score + 1 ELSE score)

\* compute_heuristic_score with POWER_WORDS iterated in the given order
ScoreInOrder(order, title, snippet) ==
    LET Scored(combined) ==
            ScoreLoop(order, combined,
                      (IF \E i \in 1..Len(combined) : IsDigit(Char(combined, i)) THEN 2 ELSE 0)
                      + (IF Contains(combined, "?") THEN 1 ELSE 0)
                      + (IF Len(Split(title)) < 12 THEN 1 ELSE 0))
    IN  Scored(Lower(title \o " " \o snippet))

\* POWER_WORDS as written, and the orders in which a run may iterate the
\* set (the order of a set of strings changes with the hash seed of the run)
PowerWordList ==
    << "ultimate", "secret", "proven", "explosive", "mistake", "breakdown",
       "step-by-step", "hack", "strategy", "deadly", "hidden", "crucial",
       "essential", "surprising", "shocking", "powerful", "critical",
       "guaranteed", "instant", "exclusive", "revolutionary", "incredible" >>

WordOrders ==
    { PowerWordList,
      [i \in 1..Len(PowerWordList) |-> PowerWordList[Len(PowerWordList) + 1 - i]],
      [i \in 1..Len(PowerWordList) |-> PowerWordList[((i + 6) % Len(PowerWordList)) + 1]] }

ScoredTitles ==
    { "", "plain title", "7 habits", "The ULTIMATE Hack?",
      "a b c d e f g h i j k l", "one two three four five six seven eight nine ten eleven" }

ScoredSnippets ==
    { "", "why?", "a hidden, proven strategy", "Step-by-step in 2024", "nothing here",
      "an incredible, shocking 10x", "crucial? essential!" }

InitScore ==
    /\ pc = "score"
    /\ args = ValidRequest
    /\ log = <<>>
    /\ result = NewResult(ValidRequest, <<>>)
    /\ exc = NoExc
    /\ response = NoResponse
    /\ \E title \in ScoredTitles, snippet \in ScoredSnippets :
         research_data = << Sample(title, snippet, "", ""), Sample(title, snippet, "", "") >>
    /\ queries = <<>>
    /\ all_results = <<>>
    /\ raw = ""
    /\ refined = NoRefine
    /\ strategy = EmptyDict
    /\ cache = [p \in {} |-> 0]
    /\ now = CACHE_MAX_AGE_HOURS + 1
    /\ start_time = 0
    /\ searchReqs = <<>>
    /\ pageFetches = <<>>
    /\ genReqs = <<>>
    /\ stages = <<>>
    /\ calls = 0
    /\ lastSaved = [p \in {} |-> 0]
    /\ disk = NoFile
    /\ runs = <<>>

\* research_niche, line 533: r["score"] = compute_heuristic_score(title, snippet)
ScoreCall ==
    /\ pc = "score"
    /\ pc' = "score_again"
    /\ \E order \in WordOrders :
         research_data' = [research_data EXCEPT ![1].score =
                               ScoreInOrder(order, research_data[1].title, research_data[1].snippet)]
    /\ UNCHANGED <<args, log, result, exc, response, queries, all_results, raw, refined,
                   strategy, cache, now, start_time, searchReqs, pageFetches, genReqs, stages,
                   calls, lastSaved, disk, runs>>

\* the same call on a result of the same title and snippet
ScoreAgain ==
    /\ pc = "score_again"
    /\ pc' = "score_ret"
    /\ \E order \in WordOrders :
         research_data' = [research_data EXCEPT ![2].score =
                               ScoreInOrder(order, research_data[2].title, research_data[2].snippet)]
    /\ UNCHANGED <<args, log, result, exc, response, queries, all_results, raw, refined,
                   strategy, cache, now, start_time, searchReqs, pageFetches, genReqs, stages,
                   calls, lastSaved, disk, runs>>

NextScore == ScoreCall \/ ScoreAgain

SpecScore == InitScore /\ [][NextScore]_vars

-----------------------------------------------------------------------------
(* One provider call of research_niche, one request at a time: _fetch_ddg  *)
(* or _fetch_bing, then the try and except around it                       *)

\* the three provider calls of research_niche: the provider, the index of
\* the query, and the texts of the log lines
CallSites ==
    { [name |-> "ddg1", provider |-> "ddg", query |-> 1, raised |-> "DDG failed: ",
       okPrefix |-> "DDG returned ", failPrefix |-> "DDG failed: "],
      [name |-> "ddg2", provider |-> "ddg", query |-> 2, raised |-> "DDG failed: ",
       okPrefix |-> "DDG enriched: ", failPrefix |-> "DDG enriched failed: "],
      [name |-> "bing", provider |-> "bing", query |-> 1, raised |-> "Bing failed: ",
       okPrefix |-> "Bing returned ", failPrefix |-> "Bing failed: "] }

\* the call that is under way
Site == CHOOSE site \in CallSites : site.name = stages[1]

\* what was accumulated before the call: nothing before the first one
PriorResults(site) == IF site.name = "ddg1" THEN <<>> ELSE ParseDdg(DdgPage3)

ParsePage(site, links) == IF site.provider = "ddg" THEN ParseDdg(links) ELSE ParseBing(links)

\* what one request meets: a page, or a RequestException (a timeout, a
\* refused connection, an error status raised by raise_for_status)
RequestOutcomes ==
    { AttemptOk(DdgPage2), AttemptOk(BingPage3),
      [ok |-> FALSE, links |-> <<>>, err |-> "timeout"],
      [ok |-> FALSE, links |-> <<>>, err |-> "connection refused"],
      [ok |-> FALSE, links |-> <<>>, err |-> "503 Server Error"] }

\* a sleep of _delay, kept among the requests in the order of the calls
Sleep == [provider |-> "sleep", query |-> "", ok |-> TRUE]

InitFetch ==
    /\ pc = "fetch"
    /\ args = ValidRequest
    /\ \E site \in CallSites :
          /\ stages = <<site.name>>
          /\ all_results = PriorResults(site)
    /\ log = <<>>
    /\ result = NewResult(ValidRequest, <<>>)
    /\ exc = NoExc
    /\ response = NoResponse
    /\ research_data = <<>>
    /\ queries \in BuildQueries(ValidRequest.niche, ValidRequest.platform)
    /\ raw = ""
    /\ refined = NoRefine
    /\ strategy = EmptyDict
    /\ cache = [p \in {} |-> 0]
    /\ now = CACHE_MAX_AGE_HOURS + 1
    /\ start_time = 0
    /\ searchReqs = <<>>
    /\ pageFetches = <<>>
    /\ genReqs = <<>>
    /\ calls = 0
    /\ lastSaved = [p \in {} |-> 0]
    /\ disk = NoFile
    /\ runs = <<>>

\* _fetch_ddg / _fetch_bing, one turn of "for attempt in range(MAX_RETRIES)"
\* up to the sleep: calls is attempt, response what the request met, exc the
\* RuntimeError raised after the last turn
FetchAttempt ==
    /\ pc = "fetch"
    /\ calls < MAX_RETRIES
    /\ \E a \in RequestOutcomes :
          /\ response' = a
          /\ searchReqs' = Append(searchReqs, [provider |-> Site.provider,
                                               query |-> queries[Site.query], ok |-> a.ok])
          /\ IF a.ok THEN pc' = "fetched" /\ exc' = exc
             ELSE IF calls < MAX_RETRIES - 1 THEN pc' = "delay" /\ exc' = exc
             ELSE /\ pc' = "fetch_raised"
                  /\ exc' = [type |-> "RuntimeError", msg |-> Site.raised \o a.err]
    /\ UNCHANGED <<args, log, result, research_data, queries, all_results, raw, refined,
                   strategy, cache, now, start_time, pageFetches, genReqs, stages, calls,
                   lastSaved, disk, runs>>

\* the next turn begun at once, with no sleep
FetchAtOnce ==
    /\ pc = "delay"
    /\ pc' = "fetch"
    /\ calls' = calls + 1
    /\ UNCHANGED <<args, log, result, exc, response, research_data, queries, all_results, raw,
                   refined, strategy, cache, now, start_time, searchReqs, pageFetches, genReqs,
                   stages, lastSaved, disk, runs>>

\* "if attempt < MAX_RETRIES - 1: _delay()", and the next turn begins
FetchDelay ==
    /\ pc = "delay"
    /\ pc' = "fetch"
    /\ calls' = calls + 1
    /\ searchReqs' = Append(searchReqs, Sleep)
    /\ UNCHANGED <<args, log, result, exc, response, research_data, queries, all_results, raw,
                   refined, strategy, cache, now, start_time, pageFetches, genReqs, stages,
                   lastSaved, disk, runs>>

\* research_niche, the try branch: parse, extend, log
FetchParsed ==
    /\ pc = "fetched"
    /\ pc' = "call_done"
    /\ \E parsed \in {ParsePage(Site, response.links)} :
          /\ all_results' = all_results \o parsed
          /\ log' = Append(log, Site.okPrefix \o NumStr(Len(parsed)) \o " results.")
    /\ UNCHANGED <<args, result, exc, response, research_data, queries, raw, refined, strategy,
                   cache, now, start_time, searchReqs, pageFetches, genReqs, stages, calls,
                   lastSaved, disk, runs>>

\* research_niche, "except RuntimeError as e: log.append(...)"
FetchCaught ==
    /\ pc = "fetch_raised"
    /\ pc' = "call_done"
    /\ log' = Append(log, Site.failPrefix \o exc.msg)
    /\ exc' = NoExc
    /\ UNCHANGED <<args, result, response, research_data, queries, all_results, raw, refined,
                   strategy, cache, now, start_time, searchReqs, pageFetches, genReqs, stages,
                   calls, lastSaved, disk, runs>>

NextFetch == FetchAttempt \/ FetchDelay \/ FetchParsed \/ FetchCaught

SpecFetch == InitFetch /\ [][NextFetch]_vars

-----------------------------------------------------------------------------
(* The summarization loop of research_niche, one item at a time            *)

MaxItems == 3

\* contents of 0, 99, 100 and 330 characters
SummarizedContents == { "", Rep("c", 99), Rep("c", 100), Rep(PageSentence, 10) }

\* what the backend answers to the prompts of one summarize_page call
SummaryAnswers ==
    { Summary, Unreachable, HttpError, OverflowThen(" Hook: none. "),
      <<Ans("http_overflow", "prompt too long"), Ans("http_overflow", "prompt too long")>> }

InitSummaries ==
    /\ pc = "summarize"
    /\ args = ValidRequest
    /\ log = <<>>
    /\ result = NewResult(ValidRequest, <<>>)
    /\ exc = NoExc
    /\ response = NoResponse
    /\ \E n \in 1..MaxItems : \E contents \in [1..n -> SummarizedContents] :
          research_data = [i \in 1..n |-> Sample("7 habits", "", contents[i], "")]
    /\ queries = <<>>
    /\ all_results = <<>>
    /\ raw = ""
    /\ refined = NoRefine
    /\ strategy = EmptyDict
    /\ cache = [p \in {} |-> 0]
    /\ now = CACHE_MAX_AGE_HOURS + 1
    /\ start_time = 0
    /\ searchReqs = <<>>
    /\ pageFetches = <<>>
    /\ genReqs = <<>>
    /\ stages = <<>>
    /\ calls = 0
    /\ lastSaved = [p \in {} |-> 0]
    /\ disk = NoFile
    /\ runs = <<>>

\* research_niche, lines 553-558, one turn of "for r in deduped": calls is
\* the number of items gone through, all_results keeps how the backend call
\* of each item ended ("none": no call), genReqs the item of each request
SummarizeNext ==
    /\ pc = "summarize"
    /\ calls < Len(research_data)
    /\ calls' = calls + 1
    /\ IF research_data[calls'].content # ""
       THEN \E answers \in SummaryAnswers :
              \E sum \in {SummarizePage(research_data[calls'].content, answers)} :
                 /\ research_data' = [research_data EXCEPT ![calls'].summary = sum.summary]
                 /\ genReqs' = genReqs \o [k \in 1..sum.requests |-> "summary " \o NumStr(calls')]
                 /\ all_results' = Append(all_results,
                                          IF sum.requests = 0 THEN "none"
                                          ELSE SendPrompt(answers).kind)
       ELSE /\ all_results' = Append(all_results, "none")
            /\ UNCHANGED <<research_data, genReqs>>
    /\ UNCHANGED <<pc, args, log, result, exc, response, queries, raw, refined, strategy, cache,
                   now, start_time, searchReqs, pageFetches, stages, lastSaved, disk, runs>>

\* research_niche, line 560: the loop is over, the count is logged
SummarizeDone ==
    /\ pc = "summarize"
    /\ calls = Len(research_data)
    /\ pc' = "summarized"
    /\ log' = Append(log, "Summarized "
                          \o NumStr(Cardinality({i \in DOMAIN research_data :
                                                    research_data[i].summary # ""}))
                          \o " pages.")
    /\ UNCHANGED <<args, result, exc, response, research_data, queries, all_results, raw,
                   refined, strategy, cache, now, start_time, searchReqs, pageFetches, genReqs,
                   stages, calls, lastSaved, disk, runs>>

NextSummaries == SummarizeNext \/ SummarizeDone

SpecSummaries == InitSummaries /\ [][NextSummaries]_vars

-----------------------------------------------------------------------------
(* run_pipeline called with any mix of usable and empty arguments          *)

\* a usable value, the empty string, and values of whitespace only
FieldValues == {"LinkedIn", "", "  ", "\t\n"}

InitValidate ==
    /\ pc = "validate"
    /\ \E n, p, a, g \in FieldValues :
          args = [niche |-> n, platform |-> p, audience |-> a, goal |-> g]
    /\ log = <<>>
    /\ result = NoResult
    /\ exc = NoExc
    /\ response = NoResponse
    /\ research_data = <<>>
    /\ queries = <<>>
    /\ all_results = <<>>
    /\ raw = ""
    /\ refined = NoRefine
    /\ strategy = EmptyDict
    /\ cache = [p \in {} |-> 0]
    /\ now = CACHE_MAX_AGE_HOURS + 1
    /\ start_time = 0
    /\ searchReqs = <<>>
    /\ pageFetches = <<>>
    /\ genReqs = <<>>
    /\ stages = <<>>
    /\ calls = 0
    /\ lastSaved = [p \in {} |-> 0]
    /\ disk = NoFile
    /\ runs = <<>>

NextValidate == Validate \/ CheckOllama

SpecValidate == InitValidate /\ [][NextValidate]_vars

-----------------------------------------------------------------------------
(* ai_assistant: the loop of main.py with validator.py and config.py.      *)
(* A command is a dict: a function on its keys.  Its "action" is a string, *)
(* its "parameters" a JSON value (t = "dict" with the dict d, or another   *)
(* type), a path value a JSON value (t = "str" with the text s, or another *)
(* type), its "requires_confirmation" a Boolean.                           *)

ALLOWED_ROOTS == <<"D:\\Workspace", "C:\\Users\\vaiks\\Documents">>

ALLOWED_ACTIONS ==
    {"open_folder", "open_file", "open_application", "list_directory", "search_file",
     "create_folder", "delete_file", "move_file", "copy_file", "change_wallpaper",
     "close_application"}

DESTRUCTIVE_ACTIONS == {"delete_file", "move_file"}

PATH_EXEMPT_ACTIONS == {"open_application", "close_application", "clarify", "denied"}

\* the directory the assistant was started in
Cwd == "C:\\Users\\vaiks\\ai_assistant"

\* the components of a Windows path: both separators separate
PathParts(path_str) == Runs(path_str, LAMBDA c : c \notin {"\\", "/"})

\* "." and ".." folded away, never above the drive
RECURSIVE Fold(_, _)
Fold(parts, done) ==
    IF Len(parts) = 0 THEN done
    ELSE IF parts[1] = "." THEN Fold(Tail(parts), done)
    ELSE IF parts[1] = ".."
         THEN Fold(Tail(parts), IF Len(done) > 1 THEN SubSeq(done, 1, Len(done) - 1) ELSE done)
    ELSE Fold(Tail(parts), Append(done, parts[1]))

\* Path(path_str).resolve() of a path without links, as its components: a
\* path without a drive is taken from the working directory
Resolve(path_str) ==
    LET parts == PathParts(path_str)
    IN  IF Len(parts) > 0 /\ Char(parts[1], Len(parts[1])) = ":"
        THEN Fold(Tail(parts), <<parts[1]>>)
        ELSE Fold(parts, PathParts(Cwd))

\* str(path)
RECURSIVE PathStr(_)
PathStr(parts) ==
    IF Len(parts) = 0 THEN ""
    ELSE IF Len(parts) = 1 THEN parts[1]
    ELSE parts[1] \o "\\" \o PathStr(Tail(parts))

\* resolved.relative_to(root) succeeds: Windows paths compare without case
RelativeTo(resolved, root) ==
    /\ Len(root) <= Len(resolved)
    /\ \A i \in 1..Len(root) : Lower(resolved[i]) = Lower(root[i])

DangerousNames ==
    {"windows", "system32", "program files", "program files (x86)", "programdata",
     "appdata", "$recycle.bin", "boot"}

\* a check that lets every path through
CheckNoPath(p) == "ok"

\* Validator._check_path_allowed: "ok", or the exception that leaves it.
\* Path() of a value that is no string raises TypeError, which the except
\* clause (OSError, ValueError) does not catch
CheckPathAllowed(p) ==
    IF p.t # "str" THEN "TypeError"
    ELSE LET Verdict(resolved, lower) ==
                 IF \E d \in DangerousNames : Contains(lower, "\\" \o d) \/ StartsWith(lower, d)
                 THEN "ValidationError"
                 ELSE IF \E i \in 1..Len(ALLOWED_ROOTS) :
                            RelativeTo(resolved, Resolve(ALLOWED_ROOTS[i]))
                      THEN "ok"
                      ELSE "ValidationError"
         IN  Verdict(Resolve(p.s), Lower(PathStr(Resolve(p.s))))

\* Validator._validate_paths, lines 115-122: the values to check, in order
PathsToCheck(params) ==
    (IF "path" \in DOMAIN params THEN <<params["path"]>> ELSE <<>>)
    \o (IF "source" \in DOMAIN params THEN <<params["source"]>> ELSE <<>>)
    \o (IF "destination" \in DOMAIN params THEN <<params["destination"]>> ELSE <<>>)

\* the loop over paths_to_check: the first check that raises ends it
RECURSIVE CheckAll(_)
CheckAll(paths) ==
    IF Len(paths) = 0 THEN "ok"
    ELSE IF CheckPathAllowed(paths[1]) # "ok" THEN CheckPathAllowed(paths[1])
    ELSE CheckAll(Tail(paths))

\* Validator._validate_paths
ValidatePaths(cmd) ==
    IF cmd["action"] \in PATH_EXEMPT_ACTIONS THEN "ok"
    ELSE IF Len(PathsToCheck(cmd["parameters"].d)) = 0 THEN "ValidationError"
    ELSE CheckAll(PathsToCheck(cmd["parameters"].d))

\* Validator._validate_structure
ValidateStructure(cmd) ==
    IF "action" \notin DOMAIN cmd THEN "ValidationError"
    ELSE IF cmd["action"] \in {"clarify", "denied"} THEN "ok"
    ELSE IF "parameters" \notin DOMAIN cmd THEN "ValidationError"
    ELSE IF cmd["parameters"].t # "dict" THEN "ValidationError"
    ELSE "ok"

\* Validator._validate_action
ValidateAction(action) == IF action \notin ALLOWED_ACTIONS THEN "ValidationError" ELSE "ok"

\* a validator that leaves requires_confirmation as the language model gave it
EnforceNothing(cmd) == cmd

\* Validator._enforce_confirmation
EnforceConfirmation(cmd) ==
    IF cmd["action"] \in DESTRUCTIVE_ACTIONS
    THEN [k \in DOMAIN cmd \cup {"requires_confirmation"} |->
             IF k = "requires_confirmation" THEN TRUE ELSE cmd[k]]
    ELSE cmd

\* a validator that checks the structure and nothing else
ValidateStructureOnly(cmd) ==
    IF ValidateStructure(cmd) # "ok" THEN [kind |-> ValidateStructure(cmd), command |-> cmd]
    ELSE [kind |-> "ok", command |-> cmd]

\* Validator.validate: how it ends (kind) and the command it returns
ValidatorValidate(cmd) ==
    IF ValidateStructure(cmd) # "ok" THEN [kind |-> ValidateStructure(cmd), command |-> cmd]
    ELSE IF cmd["action"] \in {"clarify", "denied"} THEN [kind |-> "ok", command |-> cmd]
    ELSE IF ValidateAction(cmd["action"]) # "ok" THEN [kind |-> "ValidationError", command |-> cmd]
    ELSE IF ValidatePaths(cmd) # "ok" THEN [kind |-> ValidatePaths(cmd), command |-> cmd]
    ELSE [kind |-> "ok", command |-> EnforceConfirmation(cmd)]

\* what the language model may answer: actions,
LlmActions ==
    {"delete_file", "move_file", "copy_file", "list_directory", "open_application",
     "clarify", "denied", "format_disk", "Delete_File"}

\* path values (inside a root, inside it in another spelling, leaving it by
\* "..", a system directory, a protected name inside a root, outside the
\* roots, without a drive, and a number),
Text(s) == [t |-> "str", s |-> s]

Absent == [t |-> "absent", s |-> ""]

PathValues ==
    {Absent, Text("D:\\Workspace\\notes.txt"), Text("d:/workspace/Sub/../a.txt"),
     Text("D:\\Workspace\\..\\Secrets\\k.txt"), Text("C:\\Windows\\System32\\cmd.exe"),
     Text("D:\\Workspace\\bootcamp\\a.txt"), Text("notes.txt"), [t |-> "num", s |-> "123"]}

SourceValues ==
    {Absent, Text("C:\\Users\\vaiks\\Documents\\cv.docx"), Text("D:\\Workspace\\..\\Secrets\\k.txt"),
     [t |-> "null", s |-> "null"]}

DestinationValues == {Absent, Text("D:\\Workspace\\archive"), Text("E:\\Backup")}

\* parameters (a dict of the values present, a list, or none),
ParamsOf(p, s, d) ==
    LET val == [k \in {"path", "source", "destination"} |->
                   IF k = "path" THEN p ELSE IF k = "source" THEN s ELSE d]
    IN  [t |-> "dict", d |-> [k \in {key \in DOMAIN val : val[key] # Absent} |-> val[k]]]

LlmParameters ==
    {ParamsOf(p, s, d) : p \in PathValues, s \in SourceValues, d \in DestinationValues}
    \cup {[t |-> "list", d |-> <<>>], [t |-> "absent", d |-> <<>>]}

\* and commands: requires_confirmation is true, false or absent
CommandOf(action, params, confirm) ==
    [k \in ({"action"} \cup (IF params.t = "absent" THEN {} ELSE {"parameters"})
                       \cup (IF confirm = "absent" THEN {} ELSE {"requires_confirmation"})) |->
        IF k = "action" THEN action
        ELSE IF k = "parameters" THEN params
        ELSE confirm = "true"]

LlmCommands ==
    {CommandOf(a, p, c) : a \in LlmActions, p \in LlmParameters, c \in {"true", "false", "absent"}}
    \cup {[k \in {"parameters"} |-> ParamsOf(Text("D:\\Workspace\\notes.txt"), Absent, Absent)]}

\* what is typed at "Proceed? (y/N)"
ConfirmAnswers == {"y", "yes", " Y ", "YES\n", "n", "no", "", "yep", "ok"}

NoCommand == <<>>

InitAssistant ==
    /\ pc = "a_input"
    /\ args = NoCommand
    /\ log = <<>>
    /\ result = NoResult
    /\ exc = NoExc
    /\ response = NoResponse
    /\ research_data = <<>>
    /\ queries = <<>>
    /\ all_results = <<>>
    /\ raw = ""
    /\ refined = NoRefine
    /\ strategy = EmptyDict
    /\ cache = [p \in {} |-> 0]
    /\ now = 0
    /\ start_time = 0
    /\ searchReqs = <<>>
    /\ pageFetches = <<>>
    /\ genReqs = <<>>
    /\ stages = <<>>
    /\ calls = 0
    /\ lastSaved = [p \in {} |-> 0]
    /\ disk = NoFile
    /\ runs = <<>>

\* main, lines 131-169, one pass of the loop up to the validation: the
\* instruction is read, the language model answers (or fails), the answer is
\* parsed and validated.  args is the command, queries the prompts shown in
\* this pass, raw the answer typed, stages the commands handed to
\* Executor.execute in this pass, log what the pass printed
ParseAndValidate ==
    /\ pc = "a_input"
    /\ \/ \E failure \in {"llm_error", "not_json", "not_object"} :
             /\ args' = NoCommand
             /\ log' = <<IF failure = "llm_error" THEN "LLM error" ELSE "Validation failed">>
             /\ pc' = "a_done"
             /\ exc' = NoExc
       \/ \E answer \in LlmCommands : \E v \in {ValidatorValidate(answer)} :
             /\ args' = v.command
             /\ log' = IF v.kind = "ValidationError" THEN <<"Validation failed">> ELSE <<>>
             /\ exc' = IF v.kind = "TypeError" THEN [type |-> "TypeError", msg |-> ""] ELSE NoExc
             /\ pc' = IF v.kind = "ok" THEN "a_gate"
                      ELSE IF v.kind = "ValidationError" THEN "a_done" ELSE "a_crashed"
    /\ UNCHANGED <<queries, raw, stages>>
    /\ UNCHANGED <<result, response, research_data, all_results, refined, strategy, cache, now,
                   start_time, searchReqs, pageFetches, genReqs, calls, lastSaved, disk, runs>>

\* main, lines 171-175, with ask_confirmation
ConfirmationGate ==
    /\ pc = "a_gate"
    /\ IF Get(args, "requires_confirmation", FALSE)
       THEN \E answer \in ConfirmAnswers :
               /\ queries' = Append(queries, args)
               /\ raw' = answer
               /\ IF Lower(Strip(answer)) \in {"y", "yes"}
                  THEN pc' = "a_execute" /\ log' = log
                  ELSE pc' = "a_done" /\ log' = Append(log, "Cancelled by user.")
       ELSE /\ pc' = "a_execute"
            /\ UNCHANGED <<queries, raw, log>>
    /\ UNCHANGED <<args, result, exc, response, research_data, all_results, refined, strategy, cache,
                   now, start_time, searchReqs, pageFetches, genReqs, stages, calls, lastSaved,
                   disk, runs>>

\* main, lines 177-181
Execute ==
    /\ pc = "a_execute"
    /\ stages' = Append(stages, args)
    /\ pc' = "a_done"
    /\ UNCHANGED <<args, log, result, exc, response, research_data, queries, all_results, raw,
                   refined, strategy, cache, now, start_time, searchReqs, pageFetches, genReqs,
                   calls, lastSaved, disk, runs>>

\* main, line 131: "continue" and the end of the body lead to the next pass,
\* whose locals are new
NextPass ==
    /\ pc = "a_done"
    /\ pc' = "a_input"
    /\ args' = NoCommand
    /\ log' = <<>>
    /\ queries' = <<>>
    /\ raw' = ""
    /\ stages' = <<>>
    /\ UNCHANGED <<result, exc, response, research_data, all_results, refined, strategy, cache, now,
                   start_time, searchReqs, pageFetches, genReqs, calls, lastSaved, disk, runs>>

NextAssistant == ParseAndValidate \/ ConfirmationGate \/ Execute \/ NextPass

SpecAssistant == InitAssistant /\ [][NextAssistant]_vars

-----------------------------------------------------------------------------
(* Properties                                                              *)

ResultKeys ==
    {"client_profile", "pipeline_log", "signal_strength", "niche_alignment",
     "keyword_analysis", "saturation_report", "semantic_gap_analysis",
     "competitive_intensity", "content_intelligence", "content_strategy", "meta"}

\* the positions of research_niche
ResearchPcs == {"research", "ddg1", "ddg2", "bing", "finish", "research_ret", "research_raised"}

LastStage == IF stages = <<>> THEN "" ELSE stages[Len(stages)]

NoDataMsg == "No research data collected. Try a different niche."

InsufficientMsg == "Strategy Pass 1 insufficient output."

\* C1: once run_pipeline has passed validation its result holds all eleven
\* keys at every point of the run, return and raise included, and meta has an
\* error entry exactly when the run has ended in a failure (the entry is the
\* exception's message); a run that returned or raised anything but the
\* validation error has such a result
C1_ResultShape ==
    /\ result # NoResult =>
          /\ ResultKeys \subseteq DOMAIN result
          /\ ("error" \in DOMAIN result.meta) <=> (exc # NoExc)
          /\ exc # NoExc => /\ result.meta.error = exc.msg
                            /\ "elapsed_seconds" \in DOMAIN result.meta
    /\ (pc = "returned" \/ (pc = "raised" /\ exc.type # "ValueError")) => result # NoResult
    /\ pc = "returned" => exc = NoExc
    /\ pc = "raised" => exc # NoExc

\* a run that failed in the ninth stage with the result filled up to there
C1_Witness ==
    /\ pc = "raised"
    /\ LastStage = "insights"
    /\ result.meta.error = exc.msg
    /\ "subdomains" \in DOMAIN result.meta
    /\ Len(result.keyword_analysis) > 0
    /\ result.content_strategy = EmptyDict

\* C2: a failure answered to the caller carries the pipeline log accumulated
\* up to the failure and the partially filled result with its error
C2_FailureCarriesLog ==
    (response.sent /\ exc # NoExc /\ result # NoResult) =>
        /\ response.data # <<>>
        /\ response.data.pipeline_log = log
        /\ response.data.meta.error = exc.msg

\* run_pipeline filled the result and the log, and the caller got neither
C2_Witness ==
    /\ result # NoResult
    /\ response.sent
    /\ ~response.success
    /\ response.data = <<>>
    /\ response.error = exc.msg
    /\ result.pipeline_log = log
    /\ Len(log) > 3
    /\ result.meta.error = exc.msg

\* C3: once the retrieval returned results, only the strategy draft makes
\* run_pipeline raise
C3_OnlyDraftAborts ==
    (pc = "raised" /\ Len(research_data) > 0 /\ "research" \in Range(stages)) =>
        LastStage = "draft"

\* the other later stages degrade: whatever the backend and the probes
\* answered, a run that reached the draft went through all of them, and the
\* refine pass never raises
C3_OthersDegrade ==
    /\ pc \in {"draft", "refine", "assemble", "returned"} =>
          SubSeq(stages, 1, 9) = <<"check", "research", "alignment", "keywords", "signal",
                                   "saturation", "subdomains", "gaps", "competitive">>
    /\ pc = "raised" => LastStage \notin {"subdomains", "gaps", "competitive", "refine"}

\* the insight extraction aborted a run whose retrieval had returned results
C3_Witness ==
    /\ pc = "raised"
    /\ Len(research_data) > 0
    /\ LastStage = "insights"
    /\ exc.type = "RuntimeError"
    /\ result.content_intelligence = ""

\* C4: when the availability check at the start of run_pipeline fails, the
\* run raises a ConnectionError and has issued no search request, no page
\* fetch and no generation request
C4_NoNetworkBeforeCheck ==
    [][(pc = "check" /\ pc' # "research") =>
           /\ pc' = "raised"
           /\ exc'.type = "ConnectionError"
           /\ exc'.msg = OllamaDownPipeline
           /\ searchReqs' = <<>> /\ pageFetches' = <<>> /\ genReqs' = <<>>]_vars

C4_Witness ==
    /\ pc = "raised"
    /\ exc = [type |-> "ConnectionError", msg |-> OllamaDownPipeline]
    /\ log = <<"Checking Ollama availability...", "ERROR: " \o OllamaDownPipeline>>
    /\ searchReqs = <<>> /\ pageFetches = <<>> /\ genReqs = <<>>
    /\ stages = <<>>

\* the retrieval of the run has returned, and returned nothing
RetrievalEmpty ==
    /\ "check" \in Range(stages)
    /\ pc \notin ResearchPcs
    /\ exc.type # "UnicodeDecodeError"
    /\ Len(research_data) = 0

\* C5: when the retrieval returns no results, run_pipeline raises a
\* RuntimeError and no later stage has run (and no generation request was
\* made for one)
C5_EmptyRetrievalFatal ==
    RetrievalEmpty =>
        /\ pc \in {"raised", "responded"}
        /\ exc = [type |-> "RuntimeError", msg |-> NoDataMsg]
        /\ stages = <<"check">>
        /\ "insights1" \notin Range(genReqs) /\ "draft" \notin Range(genReqs)
        /\ strategy = EmptyDict

\* the cache missed and all six provider attempts failed
C5_Witness ==
    /\ pc = "raised"
    /\ RetrievalEmpty
    /\ Len(searchReqs) = 3 * MAX_RETRIES
    /\ \A i \in DOMAIN searchReqs : ~searchReqs[i].ok
    /\ "No results from any search engine." \in Range(log)
    /\ log[Len(log)] = "ERROR: " \o NoDataMsg

\* the search requests of the run sent to the primary provider
DdgRequests == SelectSeq(searchReqs, LAMBDA r : r.provider = "ddg")

\* both queries of the primary provider were tried and every attempt failed,
\* the fallback provider answered with at least one valid result, and
\* research_niche has returned
FallbackServed ==
    /\ pc \notin {"idle", "validate", "check", "research", "ddg1", "ddg2", "bing", "finish"}
    /\ Len(DdgRequests) = 2 * MAX_RETRIES
    /\ \A i \in DOMAIN DdgRequests : ~DdgRequests[i].ok
    /\ \E i \in DOMAIN searchReqs : searchReqs[i].provider = "bing" /\ searchReqs[i].ok
    /\ Len(all_results) >= 1

\* what a provider's parser yields for a result
Stub(r) == [title |-> r.title, snippet |-> r.snippet, url |-> r.url]

StubSet(rs) == {Stub(rs[i]) : i \in DOMAIN rs}

\* the number of distinct normalised urls among the first i results
UrlsUpTo(rs, i) == Cardinality({NormUrl(rs[j]) : j \in 1..i})

FirstOccurrence(rs, i) == \A j \in 1..(i - 1) : NormUrl(rs[j]) # NormUrl(rs[i])

\* the pipeline went on after the retrieval, and logged the primary failure
FallbackContinues ==
    /\ "DDG failed: DDG failed: timeout" \in Range(log)
    /\ pc # "research_ret" => /\ "research" \in Range(stages)
                              /\ exc.msg # NoDataMsg

\* C6 as stated: in that case research_niche returns exactly the fallback
\* provider's de-duplicated results, the pipeline continues and the log
\* records the primary provider's failure
C6_ExactlyFallbackResults ==
    FallbackServed =>
        /\ pc = "research_ret" =>
              /\ StubSet(research_data) = StubSet(Dedup(all_results))
              /\ Len(research_data) = Len(Dedup(all_results))
        /\ FallbackContinues

\* C6, amended: research_niche returns the first MAX_RESULTS of the fallback
\* provider's de-duplicated results (one per normalised url, the first
\* occurrence), ordered by descending score; the pipeline continues and the
\* log records the primary provider's failure
C6_FallbackResultsCapped ==
    FallbackServed =>
        /\ pc = "research_ret" =>
              /\ Len(research_data) = Min2(MAX_RESULTS, UrlsUpTo(all_results, Len(all_results)))
              /\ \A i \in DOMAIN all_results :
                    Stub(all_results[i]) \in StubSet(research_data)
                        <=> (FirstOccurrence(all_results, i)
                             /\ UrlsUpTo(all_results, i) <= MAX_RESULTS)
              /\ StubSet(research_data) \subseteq StubSet(all_results)
              /\ \A i, j \in DOMAIN research_data :
                    i < j => research_data[i].score >= research_data[j].score
        /\ FallbackContinues

\* the fallback provider returned more than MAX_RESULTS distinct results and
\* the pipeline went on with MAX_RESULTS of them
C6_Witness ==
    /\ FallbackServed
    /\ pc = "alignment"
    /\ Len(all_results) > MAX_RESULTS
    /\ Len(research_data) = MAX_RESULTS

SectionKeys == {SECTION_PATTERNS[k].key : k \in DOMAIN SECTION_PATTERNS}

DraftDone == "draft" \in Range(stages)

RefineDone == "refine" \in Range(stages)

C9_ExactlyHalfRejected ==
    (RefineDone /\ refined.kind = "text" /\ 2 * Len(refined.text) = Len(raw)) =>
        /\ strategy["_raw"] = raw
        /\ strategy["_raw"] # refined.text
        /\ "Pass 2 too short. Using Pass 1." \in Range(log)

C9_Witness ==
    /\ pc = "assemble"
    /\ refined.kind = "text"
    /\ Len(raw) = MIN_DRAFT_LENGTH
    /\ 2 * Len(refined.text) = Len(raw)
    /\ strategy["_raw"] = raw
    /\ log[Len(log)] = "Pass 2 too short. Using Pass 1."

SixFields == {"title", "snippet", "url", "content", "score", "summary"}

Entry == cache[CachePath(args.niche, args.platform)]

\* no entry, or one older than CACHE_MAX_AGE_HOURS, or one that holds no
\* non-empty list (unreadable, no JSON, no UTF-8 text, no list, an empty list)
EntryUnusable ==
    \/ CachePath(args.niche, args.platform) \notin DOMAIN cache
    \/ now - Entry.mtime > CACHE_MAX_AGE_HOURS
    \/ Entry.kind # "list"
    \/ Entry.items = <<>>

\* research_niche is past its cache check and has not reached _save_cache:
\* the cache directory is the one the check met
PastCacheCheck == pc \in {"ddg1", "ddg2", "bing", "finish", "research_raised"}

\* the call goes on as on a miss: the queries are built, nothing is returned
\* yet, and the providers are asked
LiveRetrieval ==
    /\ pc \in {"ddg1", "ddg2", "bing", "finish"}
    /\ queries \in BuildQueries(args.niche, args.platform)
    /\ research_data = <<>>
    /\ pc = "ddg1" => all_results = <<>> /\ searchReqs = <<>> /\ log = <<>>

\* C11: _load_cache never raises; whatever the state of the entry (absent,
\* unreadable, no JSON, no decodable text, no non-empty list, too old), the
\* cache check ends as a miss and research_niche goes on to the live retrieval
C11_UnusableEntryIsMiss == (PastCacheCheck /\ EntryUnusable) => LiveRetrieval

\* every unusable entry but the one that is no UTF-8 text is a miss
C11_DecodableEntryIsMiss ==
    (PastCacheCheck /\ EntryUnusable /\ ~LoadCacheRaises(cache, now, args.niche, args.platform))
        => LiveRetrieval

\* a fresh entry that is no UTF-8 text ended the call with an exception,
\* before any provider was asked
C11_Witness ==
    /\ pc = "research_raised"
    /\ Entry.kind = "undecodable"
    /\ now - Entry.mtime <= CACHE_MAX_AGE_HOURS
    /\ queries = <<>>
    /\ searchReqs = <<>>

\* the bytes _save_cache writes for a list
FileText(data) == ConcatAll(JsonChunks(data))

\* the run has saved its list
HasSaved(r) == runs[r].pc = "returned" /\ runs[r].done = Len(FileText(runs[r].data))

\* the file the load of run r met was being written by the other run w: it
\* was created and held less than the whole text of w's list
MetPartial(r, w) ==
    /\ r # w
    /\ runs[r].pc # "load"
    /\ runs[r].saw.exists
    /\ runs[r].saw.mtime = now
    /\ Len(runs[r].saw.bytes) < Len(FileText(runs[w].data))
    /\ runs[r].saw.bytes = SubSeq(FileText(runs[w].data), 1, Len(runs[r].saw.bytes))

\* C12: of two concurrent runs on one key, a run whose load falls before,
\* into or after the other run's save never raises and returns the empty list
\* or a complete list (the other run's, or an earlier run's still fresh one);
\* a file not yet created, created and empty or partly written is a miss
C12_ReaderSeesMissOrWhole ==
    \A r \in DOMAIN runs : runs[r].pc # "load" =>
        /\ runs[r].pc # "raised"
        /\ runs[r].got \in {<<>>, OldList} \cup {runs[w].data : w \in DOMAIN runs \ {r}}
        /\ ~runs[r].saw.exists => runs[r].got = <<>>
        /\ \A w \in DOMAIN runs : MetPartial(r, w) => runs[r].got = <<>>

\* a load that returns a list returns a complete one, the list whose text the
\* file held; a load raises only on a partly written file
C12_NoPartialList ==
    \A r \in DOMAIN runs :
        /\ runs[r].got \in {<<>>, OldList} \cup {runs[w].data : w \in DOMAIN runs \ {r}}
        /\ runs[r].got # <<>> => runs[r].saw.bytes = FileText(runs[r].got)
        /\ runs[r].pc = "raised" => \E w \in DOMAIN runs : MetPartial(r, w)

\* the load of one run met the file when the other run's text had reached it
\* up to the first byte of a two-byte character, and raised
C12_Witness ==
    \E r, w \in DOMAIN runs :
        /\ MetPartial(r, w)
        /\ runs[r].saw.bytes # <<>>
        /\ runs[r].saw.bytes[Len(runs[r].saw.bytes)] = 195
        /\ runs[r].pc = "raised"
        /\ runs[w].pc = "write"

\* C13: once every run that saves has finished, the file holds the complete
\* text of exactly one run's list, never a mixture of two
C13_LastWriterWins ==
    ((\A r \in DOMAIN runs : runs[r].pc \in {"returned", "raised"})
        /\ (\E r \in DOMAIN runs : HasSaved(r)))
    => \E r \in DOMAIN runs : HasSaved(r) /\ disk.bytes = FileText(runs[r].data)

\* both runs have saved, the second list is the shorter one, and the file
\* holds its text followed by the end of the first list's text
C13_Witness ==
    /\ \A r \in DOMAIN runs : HasSaved(r)
    /\ Len(FileText(runs[2].data)) < Len(FileText(runs[1].data))
    /\ disk.bytes = FileText(runs[2].data)
                      \o SubSeq(FileText(runs[1].data), Len(FileText(runs[2].data)) + 1,
                                Len(FileText(runs[1].data)))

\* the call retrieved results from the providers and has left research_niche
RetrievedLive ==
    /\ pc \in {"research_ret", "research_raised"}
    /\ searchReqs # <<>>
    /\ Len(Dedup(all_results)) > 0

FirstOfEachUrl(rs, low, d) ==
    LET Longer(u, v) == Len(u) >= Len(v) /\ u = v \o Rep("/", Len(u) - Len(v))
        Same(i, j) == Longer(low[i], low[j]) \/ Longer(low[j], low[i])
        Kept(firsts) ==
            /\ Len(d) = Cardinality(firsts)
            /\ \A k \in 1..Len(d) :
                  d[k] = rs[CHOOSE i \in firsts : Cardinality({j \in firsts : j <= i}) = k]
    IN  Kept({i \in DOMAIN rs : \A j \in 1..(i - 1) : ~Same(i, j)})

\* C15: _dedup keeps exactly one entry for each class of urls that are equal
\* after stripping trailing slashes and lower-casing, namely the first one of
\* the input, and keeps the entries in the order of the input
C15_DedupKeepsFirst ==
    pc \in {"finish", "research_ret"} =>
        FirstOfEachUrl(all_results, [i \in DOMAIN all_results |-> Lower(all_results[i].url)],
                       Dedup(all_results))

\* the providers returned the same page under urls that differ in case and
\* in the trailing slash, and the call returned one entry for it
C15_Witness ==
    /\ pc = "research_ret"
    /\ \E i, j \in DOMAIN all_results :
          /\ i < j
          /\ all_results[i].url = "https://a.com/x"
          /\ all_results[j].url = "https://A.com/x/"
          /\ Stub(all_results[i]) \in StubSet(research_data)
          /\ Stub(all_results[j]) \notin StubSet(research_data)
    /\ Len(research_data) = Len(Dedup(all_results))
    /\ Len(research_data) < Len(all_results)

\* re.search finds each of the six header titles in the text, in any case
HasSixHeaders(text) ==
    \A k \in DOMAIN SECTION_PATTERNS : Contains(Lower(text), SECTION_PATTERNS[k].title)

\* the different normalised urls among the results the providers returned
\* to this call (none when the cache served it)
UrlsRetrieved == {NormUrl(all_results[i]) : i \in DOMAIN all_results}

\* how a run ends when the providers returned at least five results
FiveResultsRun(enough) ==
    (enough /\ pc \in {"raised", "returned"}) =>
        /\ pc = "raised" =>
              \/ LastStage = "insights" /\ exc.type \in {"ConnectionError", "RuntimeError"}
                                        /\ exc.msg # InsufficientMsg
              \/ LastStage = "draft" /\ ~HasSixHeaders(raw)
        /\ (pc = "returned" /\ HasSixHeaders(strategy["_raw"])) =>
              /\ exc = NoExc
              /\ result.meta.research_count >= MIN_COMBINED_RESULTS
              /\ DOMAIN result.content_strategy = SectionKeys

\* C16 as stated: when the providers have returned at least 5 valid results
\* and the backend answers with a strategy text that holds all six headers,
\* run_pipeline returns, meta.research_count is at least 5 and
\* content_strategy has exactly the six section keys
C16_FiveValidResults == FiveResultsRun(Len(all_results) >= MIN_COMBINED_RESULTS)

\* C16: when the providers have returned results of at least 5 different
\* normalised urls, run_pipeline raises only because a backend call failed or
\* the draft lacked the headers, and with a final strategy text that holds
\* all six headers it returns with meta.research_count at least 5 and
\* content_strategy made of exactly the six section keys, neither _raw nor
\* _pass1 among them
C16_FiveDistinctResults == FiveResultsRun(Cardinality(UrlsRetrieved) >= MIN_COMBINED_RESULTS)

\* a live run of five different pages and a six-header strategy came back whole
C16_Witness ==
    /\ pc = "returned"
    /\ Cardinality(UrlsRetrieved) >= MIN_COMBINED_RESULTS
    /\ HasSixHeaders(strategy["_raw"])
    /\ result.meta.research_count >= MIN_COMBINED_RESULTS
    /\ DOMAIN result.content_strategy = SectionKeys
    /\ {"_raw", "_pass1"} \subseteq DOMAIN strategy

\* research_niche returned pages and not one of them has extracted content
NoPageExtracted ==
    /\ research_data # <<>>
    /\ \A i \in DOMAIN research_data : research_data[i].content = ""

\* C17: when every retrieved page failed extraction, the signal is graded
\* LOW and the run goes on: insight extraction is requested from the backend,
\* its answer becomes content_intelligence, the strategy draft is requested,
\* and the only exceptions that stop the run are those of the insight and
\* draft stages
C17_NoContentGoesOn ==
    NoPageExtracted =>
        /\ "signal" \in Range(stages) => result.signal_strength.confidence = "LOW"
        /\ "insights" \in Range(stages) =>
              /\ "insights1" \in Range(genReqs)
              /\ exc = NoExc => result.content_intelligence # ""
        /\ pc = "raised" =>
              /\ LastStage \in {"insights", "draft"}
              /\ exc.type \in {"ConnectionError", "RuntimeError"}
        /\ (pc = "raised" /\ LastStage = "insights") =>
              /\ exc.msg # InsufficientMsg
              /\ result.content_intelligence = ""
        /\ "draft" \in Range(stages) =>
              /\ "insights" \in Range(stages)
              /\ "draft" \in Range(genReqs)
        /\ pc \in {"assemble", "returned"} => DOMAIN strategy # {}

\* five pages were retrieved live, none could be extracted, and the run
\* still returned its intelligence and a strategy
C17_Witness ==
    /\ pc = "returned"
    /\ NoPageExtracted
    /\ Len(research_data) >= CONTENT_EXTRACT_LIMIT
    /\ Len(pageFetches) >= CONTENT_EXTRACT_LIMIT
    /\ result.signal_strength.confidence = "LOW"
    /\ result.content_intelligence # ""
    /\ "draft" \in Range(genReqs)
    /\ DOMAIN result.content_strategy # {}

\* the headers whose title re.search finds in the text, case ignored
HeadersFound(text) ==
    {k \in DOMAIN SECTION_PATTERNS : Contains(Lower(text), SECTION_PATTERNS[k].title)}

\* C18: _split_sections returns the whole text under the single key
\* full_strategy exactly when fewer than 3 of the six headers are found in
\* it; otherwise it returns one key per header found and no full_strategy
C18_FullStrategyIffFewHeaders ==
    pc = "split_ret" =>
        /\ "full_strategy" \in DOMAIN strategy <=> Cardinality(HeadersFound(raw)) < 3
        /\ Cardinality(HeadersFound(raw)) < 3 =>
              /\ DOMAIN strategy = {"full_strategy"}
              /\ strategy["full_strategy"] = raw
        /\ Cardinality(HeadersFound(raw)) >= 3 =>
              DOMAIN strategy = {SECTION_PATTERNS[k].key : k \in HeadersFound(raw)}

\* a text with exactly three headers, not the first three and out of order,
\* came back as three sections
C18_Witness ==
    /\ pc = "split_ret"
    /\ HeadersFound(raw) = {2, 4, 6}
    /\ DOMAIN strategy = {"pillars", "scripts", "calendar"}
    /\ strategy["calendar"] = "plan 6."
    /\ strategy["pillars"] = "plan 2."

\* the words of a subdomain that count: longer than two characters
LongWords(sd) == SelectSeq(Split(sd), LAMBDA w : Len(w) > 2)

\* all the text of the pages, lower-cased
AllText(data) ==
    Lower(JoinSpace([i \in 1..Len(data) |->
        data[i].title \o " " \o data[i].snippet \o " " \o data[i].content \o " "
        \o data[i].summary]))

\* which of the long words of sd occur somewhere in the text of the pages
WordsFound(data, sd) ==
    LET In(text, words) == {i \in DOMAIN words : Contains(text, Lower(words[i]))}
    IN  In(AllText(data), LongWords(sd))

\* the entry of a subdomain in a gap analysis
EntryOf(gaps, sd) == gaps[CHOOSE i \in DOMAIN gaps : gaps[i].subdomain = sd]

\* every subdomain has its entry, whose coverage is the long words found
\* over WordCount(sd) (similarity in thousandths) and which is a gap exactly
\* below 0.3
CoverageOver(WordCount(_)) ==
    pc = "gaps_ret" =>
        /\ Len(result.semantic_gap_analysis) = Len(result.meta.subdomains)
        /\ \A k \in DOMAIN result.meta.subdomains :
              LET Holds(sd, e, m, n) ==
                      /\ e.method = "keyword"
                      /\ e.similarity = (IF n > 0 THEN RoundDiv(m, n, 1000) ELSE 0)
                      /\ e.is_gap <=> (n = 0 \/ 10 * m < GAP_THRESHOLD_TENTHS * n)
                  Of(sd) == Holds(sd, EntryOf(result.semantic_gap_analysis, sd),
                                  Cardinality(WordsFound(research_data, sd)), WordCount(sd))
              IN  Of(result.meta.subdomains[k])

\* C19 as stated: coverage is the number of the subdomain's words longer
\* than 2 found in the corpus divided by the number of all the words of the
\* subdomain, and the subdomain is a gap exactly when that is below 0.3
C19_CoverageOverAllWords == CoverageOver(LAMBDA sd : Len(Split(sd)))

\* C19: coverage is the number of the subdomain's words longer than 2 found
\* as substrings of the lower-cased corpus divided by the number of the
\* subdomain's words longer than 2 (0 when it has none), and the subdomain is
\* a gap exactly when that is below 0.3
C19_CoverageOverLongWords == CoverageOver(LAMBDA sd : Len(LongWords(sd)))

\* "ai in hr ops" is covered in full by the one word "loops" of the corpus
C19_Witness ==
    /\ pc = "gaps_ret"
    /\ research_data = <<Page("", "growth LOOPS", "")>>
    /\ \E i \in DOMAIN result.semantic_gap_analysis :
          /\ result.semantic_gap_analysis[i].subdomain = "ai in hr ops"
          /\ result.semantic_gap_analysis[i].similarity = 1000
          /\ ~result.semantic_gap_analysis[i].is_gap

\* between the two corpora the coverage of subdomain k goes from below 0.3 to
\* above 0.3 and no other subdomain finds or loses a word
OnlyRises(old, new, subdomains, k) ==
    LET n == Len(LongWords(subdomains[k]))
    IN  /\ 10 * Cardinality(WordsFound(old, subdomains[k])) < GAP_THRESHOLD_TENTHS * n
        /\ 10 * Cardinality(WordsFound(new, subdomains[k])) > GAP_THRESHOLD_TENTHS * n
        /\ \A j \in DOMAIN subdomains \ {k} :
              WordsFound(new, subdomains[j]) = WordsFound(old, subdomains[j])

\* a gap analysis without the entry of one subdomain
Without(gaps, sd) == SelectSeq(gaps, LAMBDA e : e.subdomain # sd)

\* C20: when a page added to the corpus lifts one subdomain's coverage from
\* below 0.3 to above 0.3 and changes no other subdomain's matches, that
\* subdomain's is_gap goes from true to false and the entries of all the
\* other subdomains are the same, in the same order
C20_OnlyThatGapFlips ==
    [][(pc = "gaps_ret" /\ pc' = "gaps_ret") =>
          \A k \in DOMAIN result.meta.subdomains :
              OnlyRises(research_data, research_data', result.meta.subdomains, k) =>
                  LET Flips(sd, before, after) ==
                          /\ EntryOf(before, sd).is_gap
                          /\ ~EntryOf(after, sd).is_gap
                          /\ \A j \in DOMAIN result.meta.subdomains \ {k} :
                                EntryOf(after, result.meta.subdomains[j])
                                    = EntryOf(before, result.meta.subdomains[j])
                          /\ Without(after, sd) = Without(before, sd)
                  IN  Flips(result.meta.subdomains[k], result.semantic_gap_analysis,
                            result'.semantic_gap_analysis)]_vars

\* the last page added lifted one subdomain over the threshold, touched no
\* other, and that subdomain is no gap any more while another still is
C20_Witness ==
    /\ pc = "gaps_ret"
    /\ Len(research_data) >= 2
    /\ \E k \in DOMAIN result.meta.subdomains :
          /\ OnlyRises(SubSeq(research_data, 1, Len(research_data) - 1), research_data,
                       result.meta.subdomains, k)
          /\ ~EntryOf(result.semantic_gap_analysis, result.meta.subdomains[k]).is_gap
          /\ \E j \in DOMAIN result.meta.subdomains \ {k} :
                EntryOf(result.semantic_gap_analysis, result.meta.subdomains[j]).is_gap

\* the listed phrases the backend's text holds
ListedIn(text) == {i \in 1..MaxListed : Contains(text, Listed(i))}

DetectedGaps == SelectSeq(result.semantic_gap_analysis, LAMBDA g : g.is_gap)

\* the query of the probe of a gap
ProbeQuery(gap) == "\"" \o gap.subdomain \o "\" " \o args.niche

\* the requests made for one query
RequestsFor(query) == SelectSeq(searchReqs, LAMBDA r : r.query = query)

\* C22: run_competitive_checks probes the first min(5, number of gaps) gaps
\* in the order of the gap list and no other, returns one result per probed
\* gap in that order, and raises nothing; the result of a probe whose
\* requests all failed is UNKNOWN, and the gaps after it are probed all the
\* same
C22_ProbesFirstFive ==
    pc = "competitive_ret" =>
        LET Batch(gaps, n, res) ==
                /\ exc = NoExc
                /\ Len(res) = n
                /\ \A i \in 1..n :
                      /\ res[i].gap = gaps[i].subdomain
                      /\ Len(RequestsFor(ProbeQuery(gaps[i]))) \in 1..MAX_RETRIES
                      /\ Len(RequestsFor(ProbeQuery(gaps[i]))) = MAX_RETRIES <=>
                            res[i].intensity_level = "UNKNOWN"
                      /\ res[i].intensity_level = "UNKNOWN" =>
                            (res[i].result_count = -1 /\ res[i].unique_domains = 0)
                /\ \A k \in DOMAIN searchReqs :
                      \E i \in 1..n :
                          /\ searchReqs[k].query = ProbeQuery(gaps[i])
                          /\ \A m \in 1..(k - 1) : \E h \in 1..i :
                                searchReqs[m].query = ProbeQuery(gaps[h])
        IN  Batch(DetectedGaps, Min2(MAX_COMPETITIVE_CHECKS, Len(DetectedGaps)),
                  result.competitive_intensity)

\* of seven gaps the first five were probed; the second and the fourth
\* probe failed and the fifth still has its result
C22_Witness ==
    /\ pc = "competitive_ret"
    /\ Len(DetectedGaps) = MaxGaps
    /\ Len(result.competitive_intensity) = MAX_COMPETITIVE_CHECKS
    /\ result.competitive_intensity[2].intensity_level = "UNKNOWN"
    /\ result.competitive_intensity[4].intensity_level = "UNKNOWN"
    /\ result.competitive_intensity[5].intensity_level = "HIGH"
    /\ result.competitive_intensity[5].gap = DetectedGaps[5].subdomain
    /\ Len(searchReqs) = MAX_COMPETITIVE_CHECKS + 2

\* every probe that succeeded has the level Level(count, domains, parsed)
LevelIs(Level(_, _, _)) ==
    pc = "competitive_ret" =>
        \A i \in DOMAIN result.competitive_intensity :
            LET Graded(r, parsed) ==
                    r.intensity_level # "UNKNOWN" =>
                        r.intensity_level = Level(r.result_count, r.unique_domains, Len(parsed))
            IN  Graded(result.competitive_intensity[i], all_results[i])

\* C23 as stated: LOW when the count is below 10,000 and the domains are at
\* most 3, or when there is no count and fewer than 3 results were parsed;
\* otherwise MEDIUM when the count is below 100,000; otherwise HIGH
C23_LevelByCount ==
    LevelIs(LAMBDA count, domains, parsed :
        IF (count >= 0 /\ count < 10000 /\ domains <= 3) \/ (count < 0 /\ parsed < 3) THEN "LOW"
        ELSE IF count >= 0 /\ count < 100000 THEN "MEDIUM"
        ELSE "HIGH")

\* C23: with a count, LOW when it is below 10,000 and the domains are at
\* most 3, otherwise MEDIUM when it is below 100,000, otherwise HIGH;
\* without a count, LOW when fewer than 3 results were parsed, otherwise
\* MEDIUM when the domains are at most 3, otherwise HIGH
C23_LevelByCountOrDomains ==
    LevelIs(LAMBDA count, domains, parsed :
        IF count >= 0
        THEN (IF count < 10000 /\ domains <= 3 THEN "LOW"
              ELSE IF count < 100000 THEN "MEDIUM" ELSE "HIGH")
        ELSE (IF parsed < 3 THEN "LOW" ELSE IF domains <= 3 THEN "MEDIUM" ELSE "HIGH"))

\* a probe without a count that parsed four results of two domains is MEDIUM
C23_Witness ==
    /\ pc = "competitive_ret"
    /\ Len(result.competitive_intensity) >= 1
    /\ result.competitive_intensity[1].result_count = -1
    /\ Len(all_results[1]) = 4
    /\ result.competitive_intensity[1].unique_domains = 2
    /\ result.competitive_intensity[1].intensity_level = "MEDIUM"

\* the pages that have a text: a summary or, failing that, a content
WithText == {i \in DOMAIN research_data :
                research_data[i].summary # "" \/ research_data[i].content # ""}

\* the report of a non-empty list names the format that Listicle(lists,
\* total, text lists, texts) and the guide and comparison shares give; an
\* empty list is of Unknown format
DominantIs(Listicle(_, _, _, _)) ==
    pc = "saturation_ret" =>
        LET Named(r, texts) ==
                /\ r.total = Len(research_data)
                /\ r.total = 0 => r.dominant_format = "Unknown"
                /\ r.total > 0 =>
                      r.dominant_format =
                          (IF Listicle(r.list_count, r.total, r.content_list_count, texts)
                           THEN "Listicle saturation"
                           ELSE IF 10 * r.guide_count > 4 * r.total THEN "Guide/tutorial heavy"
                           ELSE IF 10 * r.comparison_count > 3 * r.total THEN "Comparison heavy"
                           ELSE "Mixed formats")
        IN  Named(result.saturation_report, Cardinality(WithText))

\* C24 as stated: Listicle saturation when at least 50% of the titles and
\* snippets, or at least 50% of the texts, match the list patterns;
\* otherwise Guide/tutorial heavy above 40% of guides; otherwise Comparison
\* heavy above 30% of comparisons; otherwise Mixed formats
C24_ListicleFromHalf ==
    DominantIs(LAMBDA lc, total, clc, texts :
        2 * lc >= total \/ (texts > 0 /\ 2 * clc >= texts))

\* C24: Listicle saturation when more than 50% of the titles and snippets,
\* or more than 50% of the texts, match the list patterns; otherwise
\* Guide/tutorial heavy above 40% of guides; otherwise Comparison heavy
\* above 30% of comparisons; otherwise Mixed formats
C24_ListicleAboveHalf ==
    DominantIs(LAMBDA lc, total, clc, texts :
        2 * lc > total \/ (texts > 0 /\ 2 * clc > texts))

\* two list titles out of four, no list among the texts, and two guides:
\* half is not saturation, the guides name the format
C24_Witness ==
    /\ pc = "saturation_ret"
    /\ result.saturation_report.total = 4
    /\ result.saturation_report.list_count = 2
    /\ result.saturation_report.content_list_count = 0
    /\ result.saturation_report.guide_count = 2
    /\ ~result.saturation_report.is_saturated
    /\ result.saturation_report.dominant_format = "Guide/tutorial heavy"

\* C25: a page whose cleaned text is shorter than 300 characters, and a
\* request or parse that raised, give the empty string; every other value
\* returned is 300 to 1200 characters long
C25_EmptyOrBounded ==
    pc = "extract_ret" =>
        LET Bounded(content) ==
                /\ ~response.ok \/ Len(response.cleaned) < 300 => content = ""
                /\ content # "" => Len(content) >= 300 /\ Len(content) <= 1200
        IN  Bounded(research_data[1].content)

\* a text of 1500 characters with its last full stop at place 602 comes
\* back cut after that full stop
C25_Witness ==
    /\ pc = "extract_ret"
    /\ Len(response.cleaned) = 1500
    /\ Len(research_data[1].content) = 602
    /\ Char(research_data[1].content, 602) = "."

\* the answers that say the context length was exceeded
Overflows == {"http_overflow", "json_overflow"}

\* at most two requests; a second one only after an overflow answer to the
\* first, carrying what _trim_prompt made of the first prompt; an overflow
\* answer to the second raises RuntimeError; an unreachable backend raises
\* ConnectionError at once, with no request after it
RetryRules ==
    /\ Len(genReqs) <= 2
    /\ Len(genReqs) = Len(all_results)
    /\ Len(genReqs) >= 1 => genReqs[1] = queries[1]
    /\ Len(genReqs) = 2 =>
          /\ all_results[1].kind \in Overflows
          /\ genReqs[2] = TrimPrompt(genReqs[1], TrimTarget(Len(genReqs[1])))
    /\ Len(all_results) = 2 /\ all_results[2].kind \in Overflows =>
          pc = "prompt_raised" /\ exc.type = "RuntimeError"
    /\ \A i \in DOMAIN all_results :
          all_results[i].kind = "unreachable" =>
              i = Len(all_results) /\ pc = "prompt_raised" /\ exc.type = "ConnectionError"

\* the call is over once an answer came that is no overflow answer to the
\* first request, and it ends with a text or with one of the two errors
EndsWithTextOrError ==
    /\ pc = "post" => all_results = <<>> \/ (Len(all_results) = 1 /\ all_results[1].kind \in Overflows)
    /\ pc = "prompt_ret" => refined.kind = "text" /\ exc = NoExc
    /\ pc = "prompt_raised" => exc.type \in {"ConnectionError", "RuntimeError"}

\* C26 as stated: a send_prompt call issues at most two requests, the second
\* only after a context-length answer to the first and with the trimmed
\* prompt; a context-length answer to the second raises RuntimeError; an
\* unreachable backend raises ConnectionError and is not retried; and the
\* call always ends with a returned text or one of these two errors
C26_TwoRequestsTextOrError == RetryRules /\ EndsWithTextOrError

\* C26 without its last sentence: the rules of the retry alone
C26_RetryRules == RetryRules

\* the backend answered 200 with a JSON body whose response is null, and
\* the call ended with an AttributeError
C26_Witness ==
    /\ pc = "prompt_raised"
    /\ all_results[Len(all_results)].kind = "ok_null"
    /\ exc.type = "AttributeError"

\* a retry that carried a prompt cut by _trim_prompt and was answered with a text
C26_RetryWitness ==
    /\ pc = "prompt_ret"
    /\ Len(genReqs) = 2
    /\ Len(genReqs[2]) < Len(genReqs[1])
    /\ Contains(genReqs[2], "[... trimmed ...]")
    /\ refined.text = "a plan"

\* C27: the score is an integer that is at least 0, and two calls with the
\* same title and snippet give the same score, in whatever order the set of
\* power words is gone through
C27_ScoreNonNegativeSame ==
    /\ pc \in {"score_again", "score_ret"} =>
          /\ research_data[1].score \in Nat
          /\ research_data[1].score =
                 ComputeHeuristicScore(research_data[1].title, research_data[1].snippet)
    /\ pc = "score_ret" =>
          /\ research_data[2].score \in Nat
          /\ research_data[2].score = research_data[1].score

\* a title of an upper-case power word, a second one and a question mark,
\* scored 4 twice
C27_Witness ==
    /\ pc = "score_ret"
    /\ research_data[1].title = "The ULTIMATE Hack?"
    /\ research_data[1].snippet = ""
    /\ research_data[1].score = 4
    /\ research_data[2].score = 4

\* the search queries issued, in order: the provider and the query of each
\* run of requests that repeat one another
RECURSIVE QueriesIssued(_)
QueriesIssued(reqs) ==
    IF reqs = <<>> THEN <<>>
    ELSE LET rest == QueriesIssued(Tail(reqs))
             q == <<Head(reqs).provider, Head(reqs).query>>
         IN  IF rest # <<>> /\ Head(rest) = q THEN rest ELSE <<q>> \o rest

\* C28: on a cache miss the primary provider is asked the primary query
\* first; it is asked the secondary query only if fewer than 5 results have
\* been accumulated, and the fallback provider is asked the primary query
\* only if fewer than 5 have been accumulated after that; with 5 or more
\* results from the first query no further search query is issued
C28_ProviderOrder ==
    [][ /\ (searchReqs' # searchReqs /\ searchReqs' # <<>>) =>
              LET before == QueriesIssued(searchReqs)
                  after == QueriesIssued(searchReqs')
              IN  /\ Len(after) = Len(before) + 1
                  /\ SubSeq(after, 1, Len(before)) = before
                  /\ Len(before) = 0 => after[1] = <<"ddg", queries[1]>>
                  /\ Len(before) = 1 =>
                        after[2] = <<"ddg", queries[2]>> /\ Len(all_results) < 5
                  /\ Len(before) = 2 =>
                        after[3] = <<"bing", queries[1]>> /\ Len(all_results) < 5
                  /\ Len(before) < 3
        /\ (pc' = "finish" /\ pc # "finish") =>
              /\ QueriesIssued(searchReqs') # <<>>
              /\ Len(QueriesIssued(searchReqs')) < 3 => Len(all_results') >= 5
              /\ (Len(QueriesIssued(searchReqs')) > 1 /\ Len(all_results') >= 5) =>
                    Len(all_results) < 5 ]_vars

\* five results from the first query: the research goes on with one query
\* issued and no request to the fallback provider
C28_Witness ==
    /\ pc = "finish"
    /\ Len(all_results) = 5
    /\ QueriesIssued(searchReqs) = << <<"ddg", queries[1]>> >>

\* three results, then two more from the secondary query: the fallback
\* provider is not asked
C28_WitnessSecondary ==
    /\ pc = "finish"
    /\ Len(all_results) = 5
    /\ QueriesIssued(searchReqs) = << <<"ddg", queries[1]>>, <<"ddg", queries[2]>> >>

\* the requests of the call, the sleeps left out
SentRequests == SelectSeq(searchReqs, LAMBDA r : r.provider # "sleep")

\* C29: a provider call makes at most 2 requests, the second only after the
\* first failed and after a sleep; the page of the request that succeeded
\* is what the call returns; after two failures research_niche catches the
\* error, writes it to the log, and the call adds no results
C29_TwoAttempts ==
    /\ Len(SentRequests) <= 2
    /\ \A i \in DOMAIN searchReqs :
          /\ searchReqs[i].provider # "sleep" =>
                /\ searchReqs[i].provider = Site.provider
                /\ searchReqs[i].query = queries[Site.query]
          /\ (searchReqs[i].provider # "sleep" /\ i > 1) =>
                /\ i = 3
                /\ searchReqs[2] = Sleep
                /\ ~searchReqs[1].ok
          /\ searchReqs[i].provider = "sleep" => i = 2
    /\ pc = "call_done" =>
          IF response.ok
          THEN /\ SentRequests[Len(SentRequests)].ok
               /\ all_results = PriorResults(Site) \o ParsePage(Site, response.links)
               /\ Len(log) = 1 /\ StartsWith(log[1], Site.okPrefix)
          ELSE /\ Len(SentRequests) = 2
               /\ ~SentRequests[1].ok /\ ~SentRequests[2].ok
               /\ all_results = PriorResults(Site)
               /\ log = << Site.failPrefix \o Site.raised \o response.err >>
               /\ exc = NoExc

\* the first request timed out, the second was answered: its results are added
C29_Witness ==
    /\ pc = "call_done"
    /\ stages = <<"bing">>
    /\ searchReqs = << [provider |-> "bing", query |-> queries[1], ok |-> FALSE], Sleep,
                       [provider |-> "bing", query |-> queries[1], ok |-> TRUE] >>
    /\ Len(all_results) = Len(PriorResults(Site)) + 3

\* both requests failed: the error of the second is in the log, nothing is added
C29_WitnessFailed ==
    /\ pc = "call_done"
    /\ stages = <<"ddg2">>
    /\ Len(SentRequests) = 2
    /\ log = << "DDG enriched failed: DDG failed: 503 Server Error" >>
    /\ all_results = PriorResults(Site)

\* a fresh, non-empty entry for the key of the call: a JSON list with items,
\* modified at most 24 hours ago
FreshEntry ==
    /\ CachePath(args.niche, args.platform) \in DOMAIN cache
    /\ cache[CachePath(args.niche, args.platform)].kind = "list"
    /\ Len(cache[CachePath(args.niche, args.platform)].items) > 0
    /\ now - cache[CachePath(args.niche, args.platform)].mtime <= 24

\* C30: with a fresh, non-empty entry for the key, research_niche returns
\* the items of the entry as they are, makes no search request, no page
\* fetch and no summarization call, and leaves the entry as it was
C30_HitReturnsEntry ==
    [][ (pc = "research" /\ FreshEntry) =>
            /\ pc' = "research_ret"
            /\ research_data' = cache[CachePath(args.niche, args.platform)].items
            /\ searchReqs' = <<>> /\ pageFetches' = <<>> /\ genReqs' = <<>>
            /\ cache' = cache ]_vars

\* an entry of exactly 24 hours was returned: no request, the entry as it was
C30_Witness ==
    /\ pc = "research_ret"
    /\ FreshEntry
    /\ now - cache[CachePath(args.niche, args.platform)].mtime = 24
    /\ research_data = cache[CachePath(args.niche, args.platform)].items
    /\ searchReqs = <<>> /\ pageFetches = <<>> /\ genReqs = <<>>
    /\ log = << "Loaded " \o NumStr(Len(research_data)) \o " results from cache." >>

\* research_niche has returned the list of a live retrieval
LiveReturn == pc = "research_ret" /\ searchReqs # <<>> /\ research_data # <<>>

\* C31: the list returned by a live run is in non-increasing score order,
\* the pages fetched are those of its first min(5, n) items, and every item
\* from position 6 on has empty content and empty summary
C31_SortedThenExtracted ==
    LiveReturn =>
        /\ \A i, j \in DOMAIN research_data :
              i < j => research_data[i].score >= research_data[j].score
        /\ pageFetches = [i \in 1..Min2(5, Len(research_data)) |-> research_data[i].url]
        /\ \A i \in DOMAIN research_data :
              i > 5 => research_data[i].content = "" /\ research_data[i].summary = ""

\* twelve items of two different scores, content in the first and none
\* from the sixth on, although a higher score came late in the accumulation
C31_Witness ==
    /\ LiveReturn
    /\ Len(research_data) = 12
    /\ research_data[1].score > research_data[12].score
    /\ research_data[1].content # ""
    /\ Dedup(all_results)[1].url # research_data[1].url

\* C32: the list returned by a live run has at most 12 entries, and they
\* are the first 12 of the accumulated results after de-duplication
C32_FirstTwelveKept ==
    LiveReturn =>
        /\ Len(research_data) <= 12
        /\ Len(research_data) = Min2(12, Len(Dedup(all_results)))
        /\ {research_data[i].url : i \in DOMAIN research_data}
               = {Dedup(all_results)[i].url : i \in 1..Min2(12, Len(Dedup(all_results)))}

\* more than 12 different results were accumulated, those of the primary
\* provider first: 12 are returned, the first of the accumulation among them
C32_Witness ==
    /\ LiveReturn
    /\ Len(Dedup(all_results)) > 12
    /\ Len(research_data) = 12
    /\ searchReqs[1].provider = "ddg" /\ searchReqs[Len(searchReqs)].provider = "bing"
    /\ \E i \in DOMAIN research_data : research_data[i].url = Dedup(all_results)[1].url
    /\ \A i \in DOMAIN research_data :
          research_data[i].url # Dedup(all_results)[Len(Dedup(all_results))].url

\* C33: the gap list has exactly one entry per input subdomain, every gap
\* precedes every entry that is no gap, and within the gaps and within the
\* others the similarity never falls
C33_GapsFirstAscending ==
    pc = "gaps_ret" =>
        LET Ordered(gaps, subdomains) ==
                /\ Len(gaps) = Len(subdomains)
                /\ \A sd \in Range(subdomains) \cup {gaps[i].subdomain : i \in DOMAIN gaps} :
                      Cardinality({i \in DOMAIN gaps : gaps[i].subdomain = sd})
                          = Cardinality({k \in DOMAIN subdomains : subdomains[k] = sd})
                /\ \A i, j \in DOMAIN gaps :
                      i < j =>
                          /\ gaps[j].is_gap => gaps[i].is_gap
                          /\ gaps[i].is_gap = gaps[j].is_gap =>
                                gaps[i].similarity <= gaps[j].similarity
        IN  Ordered(result.semantic_gap_analysis, result.meta.subdomains)

\* two gaps of different similarity and an entry that is no gap, and the
\* first subdomain of the input is not the first entry
C33_Witness ==
    /\ pc = "gaps_ret"
    /\ \E i, j, k \in DOMAIN result.semantic_gap_analysis :
          /\ i < j /\ j < k
          /\ result.semantic_gap_analysis[i].is_gap
          /\ result.semantic_gap_analysis[j].is_gap
          /\ result.semantic_gap_analysis[i].similarity < result.semantic_gap_analysis[j].similarity
          /\ ~result.semantic_gap_analysis[k].is_gap
    /\ result.semantic_gap_analysis[1].subdomain # result.meta.subdomains[1]

\* the requests made for item i
RequestsOf(i) == Cardinality({k \in DOMAIN genReqs : genReqs[k] = "summary " \o NumStr(i)})

SummaryOnlyWithContent(items) ==
    \A i \in DOMAIN items : items[i].summary # "" => items[i].content # ""

\* C35: in the list returned by a live run, and in every cache entry, an
\* item has a non-empty summary only if it has non-empty content
C35_SummaryNeedsContent ==
    /\ LiveReturn => SummaryOnlyWithContent(research_data)
    /\ \A path \in DOMAIN cache :
          cache[path].kind = "list" => SummaryOnlyWithContent(cache[path].items)

\* a live run returned and stored an item with content and summary next to
\* one of the first five whose page gave no content
C35_Witness ==
    /\ LiveReturn
    /\ cache[CachePath(args.niche, args.platform)].items = research_data
    /\ cache[CachePath(args.niche, args.platform)].mtime = now
    /\ research_data[1].content # "" /\ research_data[1].summary # ""
    /\ research_data[2].content = "" /\ research_data[2].summary = ""

\* the value is empty or holds whitespace only
OnlySpace(val) == \A i \in 1..Len(val) : Char(val, i) \in {" ", "\t", "\n"}

\* the arguments of the call in the order of the check, and the empty ones
CheckedFields == << <<"niche", args.niche>>, <<"platform", args.platform>>,
                    <<"audience", args.audience>>, <<"goal", args.goal>> >>

EmptyFields == {i \in DOMAIN CheckedFields : OnlySpace(CheckedFields[i][2])}

\* C36: with an empty or whitespace-only niche, platform, audience or goal
\* run_pipeline raises ValueError, and nothing has happened by then: no
\* stage has run, no entry is in the log, no result object exists, no
\* request of any kind was made and the cache is as it was; with four
\* usable arguments it raises no ValueError
C36_EmptyArgumentRaisesFirst ==
    pc # "validate" =>
        IF EmptyFields # {}
        THEN /\ pc = "raised"
             /\ exc.type = "ValueError"
             /\ \A i \in EmptyFields :
                   (\A k \in EmptyFields : i <= k) =>
                       exc.msg = CheckedFields[i][1] \o " cannot be empty."
             /\ log = <<>> /\ stages = <<>> /\ result = NoResult
             /\ searchReqs = <<>> /\ pageFetches = <<>> /\ genReqs = <<>>
             /\ DOMAIN cache = {} /\ DOMAIN lastSaved = {}
        ELSE exc.type # "ValueError" /\ result # NoResult

\* only the audience is whitespace: ValueError names it, the log is empty
C36_Witness ==
    /\ pc = "raised"
    /\ args = [niche |-> "LinkedIn", platform |-> "LinkedIn", audience |-> "\t\n",
               goal |-> "LinkedIn"]
    /\ exc = [type |-> "ValueError", msg |-> "audience cannot be empty."]
    /\ log = <<>>

\* C37: the cache directory changes in one place only, the end of a live
\* retrieval that found at least one result: requests were made, the results
\* are not empty, only the file of this niche and platform changes, and a
\* list it holds afterwards is the non-empty list that is returned.  Every
\* other step (a run with invalid arguments or without a backend, a cache
\* hit, a retrieval that found nothing) leaves the directory as it was
C37_CacheWrittenOnlyAfterLiveResults ==
    [][ /\ cache' # cache =>
            /\ pc = "finish" /\ searchReqs # <<>> /\ all_results # <<>>
            /\ \A p \in DOMAIN cache : p \in DOMAIN cache'
            /\ \A p \in DOMAIN cache' \ {CachePath(args.niche, args.platform)} :
                  p \in DOMAIN cache /\ cache'[p] = cache[p]
            /\ cache'[CachePath(args.niche, args.platform)].kind = "list" =>
                  /\ research_data' # <<>>
                  /\ cache'[CachePath(args.niche, args.platform)].items = Serializable(research_data')
        /\ (pc = "finish" /\ research_data' = <<>> /\ pc' = "research_ret") => cache' = cache
        /\ pc \in {"idle", "validate", "check", "research"} => cache' = cache
      ]_vars

\* a retrieval that asked the providers and found nothing returns the empty
\* list while the expired file of an earlier run is still there
C37_Witness ==
    /\ pc = "research_ret"
    /\ research_data = <<>>
    /\ searchReqs # <<>>
    /\ CachePath(args.niche, args.platform) \in DOMAIN cache
    /\ cache[CachePath(args.niche, args.platform)].mtime = 0
    /\ cache[CachePath(args.niche, args.platform)].items # <<>>

\* a live retrieval has just written its results
C37_WitnessWritten ==
    /\ pc = "research_ret"
    /\ searchReqs # <<>>
    /\ CachePath(args.niche, args.platform) \in DOMAIN cache
    /\ cache[CachePath(args.niche, args.platform)] = CacheFile(now, Serializable(research_data))
    /\ research_data # <<>>

\* C38: a command whose action is delete_file or move_file is handed to
\* Executor.execute only after the prompt was shown for this command and the
\* answer was y or yes (spaces and case aside), whatever requires_confirmation
\* the language model gave; after any other answer nothing is executed and
\* the pass of the loop is over
C38_DestructiveNeedsYes ==
    [][ /\ stages' # stages /\ stages' # <<>> =>
            /\ stages' = <<args>>
            /\ args["action"] \in {"delete_file", "move_file"} =>
                  /\ queries = <<args>>
                  /\ \E yes \in {"y", "yes"}, before, after \in {"", " ", "\n"} :
                        Lower(raw) = before \o yes \o after
        /\ (pc = "a_gate" /\ args["action"] \in {"delete_file", "move_file"}) =>
              /\ queries' = <<args>>
              /\ pc' \in {"a_execute", "a_done"}
              /\ pc' = "a_done" => stages' = <<>> /\ log' = <<"Cancelled by user.">>
      ]_vars

\* a delete_file the language model marked as needing no confirmation was
\* executed after the answer "YES"
C38_Witness ==
    /\ stages # <<>>
    /\ stages[1]["action"] = "delete_file"
    /\ raw = "YES\n"
    /\ queries = stages

\* a move_file was declined: nothing is executed
C38_WitnessDeclined ==
    /\ pc = "a_done"
    /\ "action" \in DOMAIN args
    /\ args["action"] = "move_file"
    /\ raw = "n"
    /\ stages = <<>>

\* the value is a text that names a place under one of the allowed roots
UnderAllowedRoot(value) ==
    /\ value.t = "str"
    /\ \E i \in 1..Len(ALLOWED_ROOTS) :
          RelativeTo(Resolve(value.s), Resolve(ALLOWED_ROOTS[i]))

\* the command has a permitted action and, unless the action is exempt, at
\* least one of path, source, destination, each under an allowed root
Acceptable(cmd) ==
    /\ "action" \in DOMAIN cmd
    /\ cmd["action"] \in {"clarify", "denied"} \cup ALLOWED_ACTIONS
    /\ cmd["action"] \notin PATH_EXEMPT_ACTIONS =>
          /\ "parameters" \in DOMAIN cmd
          /\ cmd["parameters"].t = "dict"
          /\ DOMAIN cmd["parameters"].d \cap {"path", "source", "destination"} # {}
          /\ \A k \in DOMAIN cmd["parameters"].d \cap {"path", "source", "destination"} :
                UnderAllowedRoot(cmd["parameters"].d[k])

\* C39: every command handed to Executor.execute has a permitted action and,
\* unless the action is path-exempt, at least one of path, source and
\* destination, each resolving under an allowed root; every other command
\* the language model gives ends the pass with "Validation failed" (the
\* ValidationError caught in main) and is not executed
C39_OthersRaiseValidationError ==
    [][ /\ (stages' # stages /\ stages' # <<>>) => Acceptable(stages'[1])
        /\ (pc = "a_input" /\ DOMAIN args' # {} /\ ~Acceptable(args')) =>
              /\ pc' = "a_done"
              /\ log' = <<"Validation failed">>
              /\ exc' = NoExc
      ]_vars

\* what holds of it: only such commands are executed; any other command
\* is never executed, and its pass ends with "Validation failed" or with an
\* exception that is no ValidationError and leaves main
C39_OnlyAcceptableExecuted ==
    [][ /\ (stages' # stages /\ stages' # <<>>) => Acceptable(stages'[1])
        /\ pc' = "a_execute" => Acceptable(args')
        /\ (pc = "a_input" /\ DOMAIN args' # {} /\ ~Acceptable(args')) =>
              \/ pc' = "a_done" /\ log' = <<"Validation failed">> /\ exc' = NoExc
              \/ pc' = "a_crashed" /\ exc'.type = "TypeError"
      ]_vars

\* list_directory with the path 123: Path(123) raises TypeError in
\* _check_path_allowed, nothing catches it and the assistant ends
C39_Witness ==
    /\ pc = "a_crashed"
    /\ exc.type = "TypeError"
    /\ args["action"] = "list_directory"
    /\ args["parameters"].d["path"].t = "num"
    /\ log = <<>>
    /\ stages = <<>>

\* copy_file from the documents to the archive, both under the roots, is executed
C39_WitnessExecuted ==
    /\ stages # <<>>
    /\ stages[1]["action"] = "copy_file"
    /\ DOMAIN stages[1]["parameters"].d = {"source", "destination"}
    /\ queries = <<>>

\* C40: the prompt posted on the retry after an overflow answer, which is
\* what _trim_prompt returned, is strictly shorter than the prompt that
\* overflowed, wherever the markers stand
C40_RetryPromptShorter ==
    Len(genReqs) >= 2 => Len(genReqs[2]) < Len(genReqs[1])

\* what holds of it: the retry carries the first quarter of the prompt, or
\* what precedes its start marker, at its head and the prompt's last
\* characters at its end, and prompts of 300 characters and more, markers
\* in order or none, come back shorter
C40_HeadAndTailKept ==
    Len(genReqs) >= 2 =>
        /\ Len(genReqs[1]) > 0 =>
              /\ Char(genReqs[2], 1) = Char(genReqs[1], 1)
              /\ Char(genReqs[2], Len(genReqs[2])) = Char(genReqs[1], Len(genReqs[1]))
        /\ Len(genReqs[1]) >= 300 => Len(genReqs[2]) < Len(genReqs[1])
        /\ Len(genReqs[1]) < 300 => Len(genReqs[2]) >= Len(genReqs[1])

\* the prompt whose end marker precedes its start marker overflowed: 29
\* characters were posted first, 45 on the retry
C40_Witness ==
    /\ Len(genReqs) = 2
    /\ genReqs[1] = "GENERATE: ideas\nSAMPLES: none"
    /\ genReqs[2] = "GENERATE: ideas\nGENERATE: ideas\nSAMPLES: none"
    /\ Len(genReqs[2]) > Len(genReqs[1])

\* a prompt of 40 characters overflowed and was posted again unchanged
C40_WitnessUnchanged ==
    /\ Len(genReqs) = 2
    /\ Len(genReqs[1]) = 40
    /\ genReqs[2] = genReqs[1]

====
